---- MODULE Spec2Model ----
(***************************************************************************)
(* Model of better-markdown-to-pdf: the block-math and inline-math parser   *)
(* rules, the math render rules, the fence override, escapeHtml and the    *)
(* render API (lib/markdown); front matter, mdToPdf, generateHtml and the  *)
(* shared browser (pkg/index); the command line program (pkg/cli).         *)
(*                                                                         *)
(* Text is a sequence of one-character strings, markup included.           *)
(* Positions and line numbers are 0-based, as in the source; slice,        *)
(* indexOf and trim follow the JavaScript operations of the same name.     *)
(***************************************************************************)
EXTENDS Integers, Sequences, FiniteSets, TLC

VARIABLES
  pc,       \* which parser / renderer loop is running, and where it stands
  src,      \* state.src: the text handed to the block or the inline parser
  marks,    \* StateBlock's line tables bMarks, eMarks, tShift
  endLine,  \* the endLine the block tokenizer was entered with
  line,     \* StateBlock.line
  pos,      \* StateInline.pos
  pending,  \* StateInline.pending: literal text not yet flushed into a token
  tokens,   \* the token stream pushed by state.push
  last,     \* the call of a math rule made by the latest step, if it made one
  idx,      \* renderer: index of the next token to render
  out,      \* renderer: the HTML fragments produced so far, one per token
  lib,      \* what katex / highlight.js did at each call made so far
  mdInstance, \* lib/markdown: the memoized default renderer, or null
  made,     \* lib/markdown: number of renderers createMarkdownRenderer has built
  call,     \* lib/markdown: the latest call of renderMarkdownSafe
  ncalls,   \* lib/markdown: number of calls of renderMarkdownSafe so far
  pdfCall,  \* pkg: the latest call of mdToPdf: its arguments and what it did
  cliPc,    \* cli: where main stands
  argv,     \* cli: process.argv.slice(2)
  fileConfig, \* cli: the configuration file found, or undefined
  parsed,   \* cli: the result of parseArgs, its config merged with the file's
  inputFiles, \* cli: the expanded list of input files
  successCount, \* cli: files converted by the batch loop
  errorCount,   \* cli: files the batch loop failed on
  cliLog,   \* cli: what main printed and called, in order
  exitCode, \* cli: the exit code of the process, -1 while it runs
  browserInstance,      \* pkg: the shared browser, 0 for null
  currentLaunchOptions, \* pkg: the options key the shared browser was launched with
  browsers, \* pkg: the browsers chromium.launch has returned, in order
  calls,    \* pkg: the concurrent calls of mdToPdf (PDF mode): where each stands
  cleanupCall \* pkg: the call of cleanup()

\* the variables of the markdown-it parser and renderer loops
coreVars == <<pc, src, marks, endLine, line, pos, pending, tokens, last, idx, out, lib>>

\* the variables of the module state of lib/markdown
safeVars == <<mdInstance, made, call, ncalls>>

\* the variables of the command line program
cliVars ==
  <<cliPc, argv, fileConfig, parsed, inputFiles, successCount, errorCount, cliLog, exitCode>>

\* the variables of the package: mdToPdf and the command line program
pkgVars == <<pdfCall, cliVars>>

\* the variables of the browser management of the package
browserVars == <<browserInstance, currentLaunchOptions, browsers, calls, cleanupCall>>

\* the variables outside the parser and renderer loops
appVars == <<safeVars, pkgVars, browserVars>>

vars == <<coreVars, appVars>>

\* the keys of MarkdownOptions
OptionKeys == {"html", "linkify", "typographer", "breaks", "gfm"}

\* a markdownOptions argument: whether it was passed, the keys the object has
\* (Object.keys) and the value of each key; a key that is absent, or present
\* with the value undefined, reads as "undefined"
MdOptions(keys, val) ==
  [given |-> TRUE, keys |-> keys,
   val |-> [k \in OptionKeys |-> IF k \in DOMAIN val THEN val[k] ELSE "undefined"]]

\* markdownOptions left out (undefined)
NoMdOptions == [given |-> FALSE, keys |-> {}, val |-> [k \in OptionKeys |-> "undefined"]]

\* a RenderOptions argument: whether it was passed, its keys, options.sanitize
\* ("true", "false" or "undefined") and options.markdownOptions
RenderOptions(keys, sanitize, markdownOptions) ==
  [given |-> TRUE, keys |-> keys,
   sanitize |-> IF "sanitize" \in keys THEN sanitize ELSE "undefined",
   markdownOptions |-> IF "markdownOptions" \in keys THEN markdownOptions ELSE NoMdOptions]

\* options left out: the parameter default `options: RenderOptions = {}`
NoOptions == [given |-> FALSE, keys |-> {}, sanitize |-> "undefined", markdownOptions |-> NoMdOptions]

\* a renderer built by createMarkdownRenderer: the options it was built with;
\* id is the position of its construction among all constructions
Renderer(id, html, linkify, typographer, breaks) ==
  [id |-> id, html |-> html, linkify |-> linkify, typographer |-> typographer,
   breaks |-> breaks]

\* let mdInstance: MarkdownIt | null = null
NULL == Renderer(0, FALSE, FALSE, FALSE, FALSE)

\* no call of renderMarkdownSafe yet
NoRender ==
  [surface |-> "none", content |-> <<>>, options |-> NoOptions, inst |-> 0,
   mdBefore |-> NULL, html |-> <<>>, output |-> <<>>, sanitized |-> FALSE]

\* the module state of lib/markdown when the module is loaded
SafeIdle ==
  /\ mdInstance = NULL
  /\ made = 0
  /\ call = NoRender
  /\ ncalls = 0

\* no call of mdToPdf yet
NoPdfCall ==
  [outcome |-> "none", error |-> "", effects |-> <<>>, merged |-> [k \in {} |-> 0],
   input |-> [k \in {} |-> 0], config |-> [k \in {} |-> 0],
   markdown |-> [type |-> "undefined", v |-> ""]]

\* the command line program is not running
CliIdle ==
  /\ cliPc = "idle"
  /\ argv = <<>>
  /\ fileConfig = [type |-> "undefined", v |-> ""]
  /\ parsed = [inputs |-> <<>>]
  /\ inputFiles = <<>>
  /\ successCount = 0
  /\ errorCount = 0
  /\ cliLog = <<>>
  /\ exitCode = -1

\* no browser was launched and no call of mdToPdf or cleanup is under way
BrowserIdle ==
  /\ browserInstance = 0
  /\ currentLaunchOptions = "null"
  /\ browsers = <<>>
  /\ calls = <<>>
  /\ cleanupCall = [pc |-> "idle", afterAll |-> FALSE]

\* the state outside the parser and renderer loops when nothing has run
AppIdle ==
  /\ SafeIdle
  /\ pdfCall = NoPdfCall
  /\ CliIdle
  /\ BrowserIdle

\* ------------------------------------------------------------------ bounds

\* number of source lines of a block-parser input
MaxLines == 4
\* number of characters of an inline-parser input
MaxInline == 6
\* number of pieces of a fence body / an exception message
MaxBody == 2
\* number of math tokens handed to the renderer
MaxTokens == 2
\* number of calls of renderMarkdownSafe in one run
MaxCalls == 2

\* ------------------------------------------------------------------ text

SeqsUpTo(S, n) == UNION { [1..k -> S] : k \in 0..n }

Min(S) == CHOOSE x \in S : \A y \in S : x <= y
Max(S) == CHOOSE x \in S : \A y \in S : x >= y

\* String.prototype.slice(a, b) for 0 <= a, on a sequence of characters
slice(s, a, b) ==
  LET e == IF b > Len(s) THEN Len(s) ELSE b
  IN  IF a >= e THEN <<>> ELSE SubSeq(s, a + 1, e)

\* s.charCodeAt(i), as the character itself; "" stands for NaN (out of range)
charAt(s, i) == IF i >= 0 /\ i < Len(s) THEN s[i + 1] ELSE ""

\* String.prototype.indexOf(pat, from): first match at or after from, else -1
indexOf(s, pat, from) ==
  LET hits == { i \in from..(Len(s) - Len(pat)) : slice(s, i, i + Len(pat)) = pat }
  IN  IF hits = {} THEN -1 ELSE Min(hits)

\* the characters String.prototype.trim removes
IsWhite(c) == c \in {" ", "\n", "\t"}

\* String.prototype.trim
trim(s) ==
  LET keep == { i \in 1..Len(s) : ~IsWhite(s[i]) }
  IN  IF keep = {} THEN <<>> ELSE SubSeq(s, Min(keep), Max(keep))

RECURSIVE Flatten(_)
Flatten(ss) == IF ss = <<>> THEN <<>> ELSE Head(ss) \o Flatten(Tail(ss))

RECURSIVE JoinLines(_)
JoinLines(ls) ==
  IF ls = <<>> THEN <<>>
  ELSE IF Len(ls) = 1 THEN ls[1]
  ELSE ls[1] \o <<"\n">> \o JoinLines(Tail(ls))

DD == <<"$", "$">>

\* ------------------------------------------------------------------ StateBlock

\* markdown-it's isSpace: space or tab
isSpace(c) == c \in {" ", "\t"}

NewlinePositions(s) == { i \in 0..(Len(s) - 1) : s[i + 1] = "\n" }

\* the line tables the StateBlock constructor fills from src: bMarks, eMarks
\* and tShift, each with the constructor's extra entry at the tail.  A line ends
\* at each line feed; text after the last line feed is a line only when it
\* holds a character that is not indentation.
lineTables(s) ==
  LET nl    == NewlinePositions(s)
      k     == Cardinality(nl)
      nth   == [n \in 1..k |-> CHOOSE p \in nl : Cardinality({ q \in nl : q < p }) = n - 1]
      from  == IF k = 0 THEN 0 ELSE nth[k] + 1
      n     == k + (IF \E i \in from..(Len(s) - 1) : ~isSpace(s[i + 1]) THEN 1 ELSE 0)
      b     == [l \in 1..n |-> IF l = 1 THEN 0 ELSE nth[l - 1] + 1]
      e     == [l \in 1..n |-> IF l <= k THEN nth[l] ELSE Len(s)]
      ind(l) == LET ns == { i \in b[l]..(e[l] - 1) : ~isSpace(s[i + 1]) }
                IN  IF ns = {} THEN e[l] - b[l] ELSE Min(ns) - b[l]
  IN  [bMarks |-> Append(b, Len(s)),
       eMarks |-> Append(e, Len(s)),
       tShift |-> Append([l \in 1..n |-> ind(l)], 0)]

\* state.lineMax
lineMax == Len(marks.bMarks) - 1

\* state.bMarks[l]: offset of the first character of line l
bMarks(l) == marks.bMarks[l + 1]

\* state.eMarks[l]: offset just past the last character of line l
eMarks(l) == marks.eMarks[l + 1]

\* state.tShift[l]: number of indentation characters at the start of line l
tShift(l) == marks.tShift[l + 1]

\* state.isEmpty(l)
isEmpty(l) == bMarks(l) + tShift(l) >= eMarks(l)

\* state.skipEmptyLines(from)
skipEmptyLines(from) ==
  LET full == { l \in from..(lineMax - 1) : ~isEmpty(l) }
  IN  IF full = {} THEN (IF from > lineMax THEN from ELSE lineMax)
      ELSE Min(full)

\* the indentation loop of state.getLines: skips indentation of one line
\* until `indent` columns are passed; yields the offset reached and the columns
RECURSIVE stripIndent(_, _, _, _, _, _, _)
stripIndent(s, lineStart, first, lastp, lineIndent, indent, shift) ==
  IF first < lastp /\ lineIndent < indent
  THEN IF isSpace(charAt(s, first))
       THEN stripIndent(s, lineStart, first + 1, lastp,
                        IF charAt(s, first) = "\t"
                          THEN lineIndent + 4 - (lineIndent % 4)
                          ELSE lineIndent + 1,
                        indent, shift)
       ELSE IF first - lineStart < shift
       THEN stripIndent(s, lineStart, first + 1, lastp, lineIndent + 1, indent, shift)
       ELSE [first |-> first, lineIndent |-> lineIndent]
  ELSE [first |-> first, lineIndent |-> lineIndent]

Spaces(n) == [i \in 1..n |-> " "]

\* one line of state.getLines(begin, end, indent, keepLastLF)
getLine(l, end, indent, keepLastLF) ==
  LET lastp == IF l + 1 < end \/ keepLastLF THEN eMarks(l) + 1 ELSE eMarks(l)
      st    == stripIndent(src, bMarks(l), bMarks(l), lastp, 0, indent, tShift(l))
      pad   == IF st.lineIndent > indent THEN Spaces(st.lineIndent - indent) ELSE <<>>
  IN  pad \o slice(src, st.first, lastp)

\* state.getLines(begin, end, indent, keepLastLF)
getLines(begin, end, indent, keepLastLF) ==
  IF begin >= end THEN <<>>
  ELSE Flatten([i \in 1..(end - begin) |-> getLine(begin + i - 1, end, indent, keepLastLF)])

\* ------------------------------------------------------------------ tokens

\* state.push(type, tag, 0) followed by the assignments to content and map
Token(type, tag, content, map) ==
  [type |-> type, tag |-> tag, content |-> content, map |-> map]

NoCall ==
  [rule |-> "none", silent |-> FALSE, start |-> 0, stop |-> 0, ret |-> FALSE,
   ntok |-> 0, before |-> 0, after |-> 0]

\* ------------------------------------------------------------------ blockMathRule

\* const sameLineEnd = state.src.indexOf('$$', startPos + 2)
sameLineEnd(startPos) == indexOf(src, DD, startPos + 2)

\* content of the single-line form
singleLineContent_untrimmed(startPos, sle) == slice(src, startPos + 2, sle)

singleLineContent(startPos, sle) == trim(slice(src, startPos + 2, sle))

\* the test of the multi-line scan: the line, without indentation, trims to $$
isClosingLine(l) ==
  trim(slice(src, bMarks(l) + tShift(l), eMarks(l))) = DD

\* the for loop of the multi-line form: nextLine when the loop is left
closingLine_last(startLine, endL) ==
  LET c == { l \in (startLine + 1)..(endL - 1) : isClosingLine(l) }
  IN  IF c = {} THEN (IF endL > startLine + 1 THEN endL ELSE startLine + 1) ELSE Max(c)

closingLine(startLine, endL) ==
  LET c == { l \in (startLine + 1)..(endL - 1) : isClosingLine(l) }
  IN  IF c = {} THEN (IF endL > startLine + 1 THEN endL ELSE startLine + 1) ELSE Min(c)

\* the flag `found` after the loop
found_always(startLine, endL) == TRUE

found(startLine, endL) ==
  \E l \in (startLine + 1)..(endL - 1) : isClosingLine(l)

\* content of the multi-line form
multiLineContent(startLine, nextLine) ==
  trim(getLines(startLine + 1, nextLine, tShift(startLine), FALSE))

\* the rule without its two `if (silent) return true` lines
blockMathRule_silentIgnored(toks, ln, startLine, endL, silent) ==
  LET startPos == bMarks(startLine) + tShift(startLine)
      maxPos   == eMarks(startLine)
      same     == [ret |-> FALSE, tokens |-> toks, line |-> ln]
      sle      == sameLineEnd(startPos)
      nextLine == closingLine(startLine, endL)
  IN  IF startPos + 2 > maxPos THEN same
      ELSE IF slice(src, startPos, startPos + 2) # DD THEN same
      ELSE IF sle # -1 /\ sle < maxPos
      THEN [ret    |-> TRUE,
            tokens |-> Append(toks, Token("math_block", "div",
                                          singleLineContent(startPos, sle),
                                          <<startLine, startLine + 1>>)),
            line   |-> startLine + 1]
      ELSE IF ~found(startLine, endL) THEN same
      ELSE [ret    |-> TRUE,
            tokens |-> Append(toks, Token("math_block", "div",
                                          multiLineContent(startLine, nextLine),
                                          <<startLine, nextLine + 1>>)),
            line   |-> nextLine + 1]

\* blockMathRule(state, startLine, endLine, silent): the verdict and the
\* token stream and state.line it leaves
blockMathRule(toks, ln, startLine, endL, silent) ==
  LET startPos == bMarks(startLine) + tShift(startLine)
      maxPos   == eMarks(startLine)
      same     == [ret |-> FALSE, tokens |-> toks, line |-> ln]
      sle      == sameLineEnd(startPos)
      nextLine == closingLine(startLine, endL)
  IN  IF startPos + 2 > maxPos THEN same
      ELSE IF slice(src, startPos, startPos + 2) # DD THEN same
      ELSE IF sle # -1 /\ sle < maxPos
      THEN IF silent THEN [same EXCEPT !.ret = TRUE]
           ELSE [ret    |-> TRUE,
                 tokens |-> Append(toks, Token("math_block", "div",
                                               singleLineContent(startPos, sle),
                                               <<startLine, startLine + 1>>)),
                 line   |-> startLine + 1]
      ELSE IF ~found(startLine, endL) THEN same
      ELSE IF silent THEN [same EXCEPT !.ret = TRUE]
      ELSE [ret    |-> TRUE,
            tokens |-> Append(toks, Token("math_block", "div",
                                          multiLineContent(startLine, nextLine),
                                          <<startLine, nextLine + 1>>)),
            line   |-> nextLine + 1]

\* ------------------------------------------------------------------ block parser

\* the paragraph rule, the last rule of the block chain: the lines up to the
\* next empty line become one inline token (math_block is registered without
\* `alt`, so it never terminates a paragraph)
paragraphEnd(startLine, endL) ==
  LET stop == { l \in (startLine + 1)..(endL - 1) : isEmpty(l) }
  IN  IF stop = {} THEN (IF endL > startLine + 1 THEN endL ELSE startLine + 1)
      ELSE Min(stop)

\* source lines the block parser is run on
BlockLines ==
  { <<>>,
    <<"x">>,
    <<" ", "x">>,
    <<"$", "$">>,
    <<" ", "$", "$", " ">>,
    <<"$", "$", "x">>,
    <<"$", "$", "$", "$">>,
    <<"$", "$", " ", "x", " ", "$", "$", "x">> }

BlockSources ==
  { JoinLines(d) : d \in UNION { [1..n -> BlockLines] : n \in 1..MaxLines } }

InitBlock ==
  /\ pc = "block"
  /\ src \in BlockSources
  /\ marks = lineTables(src)
  /\ endLine \in { n \in {lineMax - 1, lineMax} : n >= 1 \/ lineMax = 0 }
  /\ line = 0
  /\ pos = 0
  /\ pending = <<>>
  /\ tokens = <<>>
  /\ last = NoCall
  /\ idx = 0
  /\ out = <<>>
  /\ lib = <<>>
  /\ AppIdle

\* ParserBlock.tokenize: state.line = line = state.skipEmptyLines(line)
SkipEmptyLines ==
  /\ pc = "block"
  /\ line < endLine
  /\ isEmpty(line)
  /\ line' = skipEmptyLines(line)
  /\ last' = NoCall
  /\ UNCHANGED <<appVars, pc, src, marks, endLine, pos, pending, tokens, idx, out, lib>>

\* the tokenizer reaches math_block in the rule chain and calls it
BlockMath ==
  /\ pc = "block"
  /\ line < endLine
  /\ ~isEmpty(line)
  /\ LET r == blockMathRule(tokens, line, line, endLine, FALSE)
     IN  /\ tokens' = r.tokens
         /\ line' = r.line
         /\ last' = [rule |-> "math_block", silent |-> FALSE, start |-> line,
                     stop |-> endLine, ret |-> r.ret, ntok |-> Len(tokens),
                     before |-> line, after |-> r.line]
         /\ pc' = IF r.ret THEN "block" ELSE "fallback"
  /\ UNCHANGED <<appVars, src, marks, endLine, pos, pending, idx, out, lib>>

\* a lookahead call of the rule (silent = true) at the current line
BlockMathSilent ==
  /\ pc = "block"
  /\ line < endLine
  /\ ~isEmpty(line)
  /\ LET r == blockMathRule(tokens, line, line, endLine, TRUE)
     IN  /\ tokens' = r.tokens
         /\ line' = r.line
         /\ last' = [rule |-> "math_block", silent |-> TRUE, start |-> line,
                     stop |-> endLine, ret |-> r.ret, ntok |-> Len(tokens),
                     before |-> line, after |-> r.line]
  /\ UNCHANGED <<appVars, pc, src, marks, endLine, pos, pending, idx, out, lib>>

\* math_block declined: the line is left to the paragraph rule
Paragraph ==
  /\ pc = "fallback"
  /\ LET nextLine == paragraphEnd(line, endLine)
     IN  /\ tokens' = Append(tokens, Token("inline", "",
                                           trim(getLines(line, nextLine, 0, FALSE)),
                                           <<line, nextLine>>))
         /\ line' = nextLine
  /\ pc' = "block"
  /\ last' = NoCall
  /\ UNCHANGED <<appVars, src, marks, endLine, pos, pending, idx, out, lib>>

\* the tokenizer loop ends
BlockDone ==
  /\ pc = "block"
  /\ line >= endLine
  /\ pc' = "done"
  /\ last' = NoCall
  /\ UNCHANGED <<appVars, src, marks, endLine, line, pos, pending, tokens, idx, out, lib>>

NextBlock ==
  \/ SkipEmptyLines
  \/ BlockMath
  \/ BlockMathSilent
  \/ Paragraph
  \/ BlockDone

SpecBlock == InitBlock /\ [][NextBlock]_vars

\* ------------------------------------------------------------------ inlineMathRule

BS == "\\"

\* "Don't match $$": the character after the opening $ is $ as well
followedByDollar(s, start, max) == start + 1 < max /\ charAt(s, start + 1) = "$"

\* "Don't match escaped \$": the character before the opening $ is a backslash
precededByBackslash(s, start) == start > 0 /\ charAt(s, start - 1) = BS

\* the while loop looking for the closing $: `end` when the loop is left
closingPos_anyDollar(s, start, max) ==
  LET c == { e \in (start + 1)..(max - 1) : charAt(s, e) = "$" }
  IN  IF c = {} THEN (IF max > start + 1 THEN max ELSE start + 1) ELSE Min(c)

closingPos_farthest(s, start, max) ==
  LET c == { e \in (start + 1)..(max - 1) :
               charAt(s, e) = "$" /\ charAt(s, e - 1) # BS }
  IN  IF c = {} THEN (IF max > start + 1 THEN max ELSE start + 1) ELSE Max(c)

closingPos(s, start, max) ==
  LET c == { e \in (start + 1)..(max - 1) :
               charAt(s, e) = "$" /\ charAt(s, e - 1) # BS }
  IN  IF c = {} THEN (IF max > start + 1 THEN max ELSE start + 1) ELSE Min(c)

\* StateInline.pushPending, as state.push calls it
pushPending(toks, pend) ==
  IF pend = <<>> THEN toks ELSE Append(toks, Token("text", "", pend, <<>>))

\* the rule with `content.trim()` kept as the content
inlineMathRule_trimmed(s, toks, pend, start, max, silent) ==
  LET same    == [ret |-> FALSE, tokens |-> toks, pending |-> pend, pos |-> start]
      end     == closingPos(s, start, max)
      content == trim(slice(s, start + 1, end))
  IN  IF charAt(s, start) # "$" THEN same
      ELSE IF followedByDollar(s, start, max) THEN same
      ELSE IF precededByBackslash(s, start) THEN same
      ELSE IF end >= max THEN same
      ELSE IF content = <<>> THEN same
      ELSE IF silent THEN [same EXCEPT !.ret = TRUE, !.pos = end + 1]
      ELSE [ret     |-> TRUE,
            tokens  |-> Append(pushPending(toks, pend),
                               Token("math_inline", "span", content, <<>>)),
            pending |-> <<>>,
            pos     |-> end + 1]

\* inlineMathRule(state, silent): the verdict and the token stream, pending
\* text and state.pos it leaves
inlineMathRule(s, toks, pend, start, max, silent) ==
  LET same    == [ret |-> FALSE, tokens |-> toks, pending |-> pend, pos |-> start]
      end     == closingPos(s, start, max)
      content == slice(s, start + 1, end)
  IN  IF charAt(s, start) # "$" THEN same
      ELSE IF followedByDollar(s, start, max) THEN same
      ELSE IF precededByBackslash(s, start) THEN same
      ELSE IF end >= max THEN same
      ELSE IF trim(content) = <<>> THEN same
      ELSE IF silent THEN [same EXCEPT !.ret = TRUE, !.pos = end + 1]
      ELSE [ret     |-> TRUE,
            tokens  |-> Append(pushPending(toks, pend),
                               Token("math_inline", "span", content, <<>>)),
            pending |-> <<>>,
            pos     |-> end + 1]

\* ------------------------------------------------------------------ inline parser

\* characters of the inline inputs
InlineChars == {"$", BS, " ", "x"}

\* the characters at which markdown-it's text rule stops, among InlineChars
isTerminatorChar(c) == c \in {"$", BS, "\n"}

\* the characters the escape rule unescapes, among InlineChars
isEscapable(c) == c \in {"$", BS}

posMax == Len(src)

\* the text rule, first in the inline chain: the run up to the next terminator
textEnd(s, p) ==
  LET t == { e \in p..(Len(s) - 1) : isTerminatorChar(charAt(s, e)) }
  IN  IF t = {} THEN Len(s) ELSE Min(t)

InitInline ==
  /\ pc = "inline"
  /\ src \in SeqsUpTo(InlineChars, MaxInline)
  /\ marks = lineTables(<<>>)
  /\ endLine = 0
  /\ line = 0
  /\ pos = 0
  /\ pending = <<>>
  /\ tokens = <<>>
  /\ last = NoCall
  /\ idx = 0
  /\ out = <<>>
  /\ lib = <<>>
  /\ AppIdle

\* the text rule takes a run of ordinary characters into pending
InlineText ==
  /\ pc = "inline"
  /\ pos < posMax
  /\ ~isTerminatorChar(charAt(src, pos))
  /\ pending' = pending \o slice(src, pos, textEnd(src, pos))
  /\ pos' = textEnd(src, pos)
  /\ last' = NoCall
  /\ UNCHANGED <<appVars, pc, src, marks, endLine, line, tokens, idx, out, lib>>

\* the tokenizer reaches math_inline, registered before `escape`, and calls it
InlineMath ==
  /\ pc = "inline"
  /\ pos < posMax
  /\ isTerminatorChar(charAt(src, pos))
  /\ LET r == inlineMathRule(src, tokens, pending, pos, posMax, FALSE)
     IN  /\ tokens' = r.tokens
         /\ pending' = r.pending
         /\ pos' = r.pos
         /\ last' = [rule |-> "math_inline", silent |-> FALSE, start |-> pos,
                     stop |-> posMax, ret |-> r.ret, ntok |-> Len(tokens),
                     before |-> pos, after |-> r.pos]
         /\ pc' = IF r.ret THEN "inline" ELSE "fallback"
  /\ UNCHANGED <<appVars, src, marks, endLine, line, idx, out, lib>>

\* a lookahead call (ParserInline.skipToken calls the rules with silent = true;
\* its caller puts state.pos back afterwards)
InlineMathSilent ==
  /\ pc = "inline"
  /\ pos < posMax
  /\ isTerminatorChar(charAt(src, pos))
  /\ LET r == inlineMathRule(src, tokens, pending, pos, posMax, TRUE)
     IN  /\ tokens' = r.tokens
         /\ pending' = r.pending
         /\ last' = [rule |-> "math_inline", silent |-> TRUE, start |-> pos,
                     stop |-> posMax, ret |-> r.ret, ntok |-> Len(tokens),
                     before |-> pos, after |-> r.pos]
  /\ UNCHANGED <<appVars, pc, src, marks, endLine, line, pos, idx, out, lib>>

\* math_inline declined at a backslash that has a character after it: the
\* escape rule pushes that character (or both, when it is not escapable)
Escape ==
  /\ pc = "fallback"
  /\ charAt(src, pos) = BS
  /\ pos + 1 < posMax
  /\ tokens' = Append(pushPending(tokens, pending),
                      Token("text_special", "",
                            IF isEscapable(charAt(src, pos + 1))
                              THEN <<charAt(src, pos + 1)>>
                              ELSE <<BS, charAt(src, pos + 1)>>,
                            <<>>))
  /\ pending' = <<>>
  /\ pos' = pos + 2
  /\ pc' = "inline"
  /\ last' = NoCall
  /\ UNCHANGED <<appVars, src, marks, endLine, line, idx, out, lib>>

\* no rule matched: state.pending += state.src[state.pos++]
Literal ==
  /\ pc = "fallback"
  /\ ~(charAt(src, pos) = BS /\ pos + 1 < posMax)
  /\ pending' = Append(pending, charAt(src, pos))
  /\ pos' = pos + 1
  /\ pc' = "inline"
  /\ last' = NoCall
  /\ UNCHANGED <<appVars, src, marks, endLine, line, tokens, idx, out, lib>>

\* the tokenizer loop ends: pending text is flushed
InlineDone ==
  /\ pc = "inline"
  /\ pos >= posMax
  /\ tokens' = pushPending(tokens, pending)
  /\ pending' = <<>>
  /\ pc' = "done"
  /\ last' = NoCall
  /\ UNCHANGED <<appVars, src, marks, endLine, line, pos, idx, out, lib>>

NextInline ==
  \/ InlineText
  \/ InlineMath
  \/ InlineMathSilent
  \/ Escape
  \/ Literal
  \/ InlineDone

SpecInline == InitInline /\ [][NextInline]_vars

\* ------------------------------------------------------------------ escapeHtml

AMP == <<"&", "a", "m", "p", ";">>
LT == <<"&", "l", "t", ";">>
GT == <<"&", "g", "t", ";">>
QUOT == <<"&", "q", "u", "o", "t", ";">>

\* str.replace(/c/g, rep)
replaceAll(str, c, rep) ==
  Flatten([i \in 1..Len(str) |-> IF str[i] = c THEN rep ELSE <<str[i]>>])

escapeHtml_ampLast(str) ==
  replaceAll(replaceAll(replaceAll(replaceAll(str, "<", LT), ">", GT), "\"", QUOT), "&", AMP)

\* escapeHtml: the four replacements, in the order of the source
escapeHtml(str) ==
  replaceAll(replaceAll(replaceAll(replaceAll(str, "&", AMP), "<", LT), ">", GT), "\"", QUOT)

\* ------------------------------------------------------------------ math render rules

\* `<div class="katex-block">`
KATEX_BLOCK_OPEN ==
  <<"<", "d", "i", "v", " ", "c", "l", "a", "s", "s", "=", "\"", "k", "a",
    "t", "e", "x", "-", "b", "l", "o", "c", "k", "\"", ">">>

\* `</div>`
DIV_CLOSE ==
  <<"<", "/", "d", "i", "v", ">">>

\* `<div class="math-error">Math error: `
MATH_ERROR_DIV ==
  <<"<", "d", "i", "v", " ", "c", "l", "a", "s", "s", "=", "\"", "m", "a",
    "t", "h", "-", "e", "r", "r", "o", "r", "\"", ">", "M", "a", "t", "h",
    " ", "e", "r", "r", "o", "r", ":", " ">>

\* `<span class="math-error">Math error: `
MATH_ERROR_SPAN ==
  <<"<", "s", "p", "a", "n", " ", "c", "l", "a", "s", "s", "=", "\"", "m",
    "a", "t", "h", "-", "e", "r", "r", "o", "r", "\"", ">", "M", "a", "t",
    "h", " ", "e", "r", "r", "o", "r", ":", " ">>

\* `</span>`
SPAN_CLOSE ==
  <<"<", "/", "s", "p", "a", "n", ">">>

\* 'Unknown error'
UNKNOWN_ERROR ==
  <<"U", "n", "k", "n", "o", "w", "n", " ", "e", "r", "r", "o", "r">>

\* a markup katex.renderToString returns
KATEX_SAMPLE ==
  <<"<", "s", "p", "a", "n", " ", "c", "l", "a", "s", "s", "=", "\"", "k",
    "a", "t", "e", "x", "\"", ">", "x", "<", "/", "s", "p", "a", "n", ">">>

\* what one call of an external library does: returns a value, throws an
\* Error carrying a message, or throws something that is no Error
Returned(v) == [kind |-> "ok", value |-> v]
ThrewError(msg) == [kind |-> "error", value |-> msg]
ThrewOther == [kind |-> "other", value |-> <<>>]
NotCalled == [kind |-> "none", value |-> <<>>]

\* characters of exception messages
MsgChars == {"<", "&", "a"}

\* what katex.renderToString may do
KatexOutcomes ==
  {Returned(KATEX_SAMPLE), Returned(<<>>), ThrewOther}
    \cup { ThrewError(msg) : msg \in SeqsUpTo(MsgChars, MaxBody) }

\* const errorMessage = e instanceof Error ? e.message : 'Unknown error'
errorMessage(o) == IF o.kind = "error" THEN o.value ELSE UNKNOWN_ERROR

\* md.renderer.rules.math_block with the typesetter behaving as o: whether the
\* rule itself throws, and the HTML it returns
math_block_nocatch(toks, i, o) ==
  IF o.kind = "ok"
  THEN [raised |-> FALSE, html |-> KATEX_BLOCK_OPEN \o o.value \o DIV_CLOSE]
  ELSE [raised |-> TRUE, html |-> <<>>]

math_block(toks, i, o) ==
  IF o.kind = "ok"
  THEN [raised |-> FALSE, html |-> KATEX_BLOCK_OPEN \o o.value \o DIV_CLOSE]
  ELSE [raised |-> FALSE,
        html   |-> MATH_ERROR_DIV \o escapeHtml(errorMessage(o)) \o DIV_CLOSE]

\* md.renderer.rules.math_inline with the typesetter behaving as o
math_inline(toks, i, o) ==
  IF o.kind = "ok"
  THEN [raised |-> FALSE, html |-> o.value]
  ELSE [raised |-> FALSE,
        html   |-> MATH_ERROR_SPAN \o escapeHtml(errorMessage(o)) \o SPAN_CLOSE]

\* token streams handed to the renderer
MathTokens ==
  { Token("math_block", "div", <<"x">>, <<0, 1>>),
    Token("math_inline", "span", <<"x">>, <<>>) }

InitRender ==
  /\ pc = "render"
  /\ src = <<>>
  /\ marks = lineTables(<<>>)
  /\ endLine = 0
  /\ line = 0
  /\ pos = 0
  /\ pending = <<>>
  /\ tokens \in UNION { [1..n -> MathTokens] : n \in 1..MaxTokens }
  /\ last = NoCall
  /\ idx = 0
  /\ out = <<>>
  /\ lib = <<>>
  /\ AppIdle

\* the renderer applies rules.math_block to the next token
RenderMathBlock ==
  /\ pc = "render"
  /\ idx < Len(tokens)
  /\ tokens[idx + 1].type = "math_block"
  /\ \E o \in KatexOutcomes :
       LET r == math_block(tokens, idx, o)
       IN  /\ lib' = Append(lib, o)
           /\ out' = IF r.raised THEN out ELSE Append(out, r.html)
           /\ idx' = IF r.raised THEN idx ELSE idx + 1
           /\ pc' = IF r.raised THEN "raised" ELSE "render"
  /\ UNCHANGED <<appVars, src, marks, endLine, line, pos, pending, tokens, last>>

\* the renderer applies rules.math_inline to the next token
RenderMathInline ==
  /\ pc = "render"
  /\ idx < Len(tokens)
  /\ tokens[idx + 1].type = "math_inline"
  /\ \E o \in KatexOutcomes :
       LET r == math_inline(tokens, idx, o)
       IN  /\ lib' = Append(lib, o)
           /\ out' = IF r.raised THEN out ELSE Append(out, r.html)
           /\ idx' = IF r.raised THEN idx ELSE idx + 1
           /\ pc' = IF r.raised THEN "raised" ELSE "render"
  /\ UNCHANGED <<appVars, src, marks, endLine, line, pos, pending, tokens, last>>

\* every token is rendered: the renderer returns the joined fragments
RenderDone ==
  /\ pc = "render"
  /\ idx >= Len(tokens)
  /\ pc' = "done"
  /\ UNCHANGED <<appVars, src, marks, endLine, line, pos, pending, tokens, last, idx, out, lib>>

NextRender ==
  \/ RenderMathBlock
  \/ RenderMathInline
  \/ RenderDone

SpecRender == InitRender /\ [][NextRender]_vars

\* ------------------------------------------------------------------ fence override

\* 'mermaid'
MERMAID ==
  <<"m", "e", "r", "m", "a", "i", "d">>

\* `<div class="mermaid">`
MERMAID_OPEN ==
  <<"<", "d", "i", "v", " ", "c", "l", "a", "s", "s", "=", "\"", "m", "e",
    "r", "m", "a", "i", "d", "\"", ">">>

\* `<pre class="hljs"><code`
PRE_HLJS_CODE ==
  <<"<", "p", "r", "e", " ", "c", "l", "a", "s", "s", "=", "\"", "h", "l",
    "j", "s", "\"", ">", "<", "c", "o", "d", "e">>

\* ` class="language-`
LANGUAGE_CLASS ==
  <<" ", "c", "l", "a", "s", "s", "=", "\"", "l", "a", "n", "g", "u", "a",
    "g", "e", "-">>

\* `</code></pre>`
CODE_PRE_CLOSE ==
  <<"<", "/", "c", "o", "d", "e", ">", "<", "/", "p", "r", "e", ">">>

\* a language highlight.js knows
JAVASCRIPT ==
  <<"j", "a", "v", "a", "s", "c", "r", "i", "p", "t">>

\* a language highlight.js does not know
FOO ==
  <<"f", "o", "o">>

\* a markup hljs.highlight returns
HLJS_SAMPLE ==
  <<"<", "s", "p", "a", "n", " ", "c", "l", "a", "s", "s", "=", "\"", "h",
    "l", "j", "s", "-", "k", "e", "y", "w", "o", "r", "d", "\"", ">", "x",
    "<", "/", "s", "p", "a", "n", ">">>

\* a fence token: token.info is the text after the opening fence marker
FenceToken(info, content) ==
  [type |-> "fence", tag |-> "code", content |-> content, map |-> <<>>, info |-> info]

\* hljs.getLanguage(lang)
getLanguage(lang) == lang = JAVASCRIPT

\* what hljs.highlight may do
HljsOutcomes == {Returned(HLJS_SAMPLE), Returned(<<>>), ThrewOther, ThrewError(<<"a">>)}

\* the `highlight` option of the renderer, with hljs.highlight behaving as o
highlight_raw(str, lang, o) ==
  IF lang # <<>> /\ getLanguage(lang) /\ o.kind = "ok" THEN o.value ELSE str

highlight(str, lang, o) ==
  IF lang # <<>> /\ getLanguage(lang) /\ o.kind = "ok" THEN o.value ELSE escapeHtml(str)

\* md.renderer.rules.fence, with hljs.highlight behaving as o
fence(toks, i, o) ==
  LET token     == toks[i + 1]
      lang      == trim(token.info)
      hl        == highlight(token.content, lang, o)
      code      == IF hl # <<>> THEN hl ELSE escapeHtml(token.content)
      langClass == IF lang # <<>> THEN LANGUAGE_CLASS \o lang \o <<"\"">> ELSE <<>>
  IN  IF lang = MERMAID
      THEN MERMAID_OPEN \o escapeHtml(token.content) \o DIV_CLOSE
      ELSE PRE_HLJS_CODE \o langClass \o <<">">> \o code \o CODE_PRE_CLOSE

\* whether the rule reaches hljs.highlight for this token
callsHljs(token) ==
  trim(token.info) # MERMAID /\ trim(token.info) # <<>> /\ getLanguage(trim(token.info))

\* info strings of the fences rendered
FenceInfos ==
  { <<>>, MERMAID, <<" ">> \o MERMAID \o <<" ">>, MERMAID \o <<" ", "x">>,
    <<"M">> \o Tail(MERMAID), FOO, FOO \o <<" ">>, JAVASCRIPT,
    <<"f", "\"", " ", "x">> }

\* fence bodies: up to MaxBody pieces, each a character or an entity
BodyPieces == { <<"&">>, <<"<">>, <<">">>, <<"\"">>, <<"a">>, <<"\n">>, AMP, LT }

FenceBodies == { Flatten(b) : b \in SeqsUpTo(BodyPieces, MaxBody) }

InitFence ==
  /\ pc = "render"
  /\ src = <<>>
  /\ marks = lineTables(<<>>)
  /\ endLine = 0
  /\ line = 0
  /\ pos = 0
  /\ pending = <<>>
  /\ tokens \in { <<FenceToken(info, body)>> : info \in FenceInfos, body \in FenceBodies }
  /\ last = NoCall
  /\ idx = 0
  /\ out = <<>>
  /\ lib = <<>>
  /\ AppIdle

\* the renderer applies rules.fence to the next token
RenderFence ==
  /\ pc = "render"
  /\ idx < Len(tokens)
  /\ tokens[idx + 1].type = "fence"
  /\ \E o \in (IF callsHljs(tokens[idx + 1]) THEN HljsOutcomes ELSE {NotCalled}) :
       /\ lib' = Append(lib, o)
       /\ out' = Append(out, fence(tokens, idx, o))
  /\ idx' = idx + 1
  /\ UNCHANGED <<appVars, pc, src, marks, endLine, line, pos, pending, tokens, last>>

NextFence ==
  \/ RenderFence
  \/ RenderDone

SpecFence == InitFence /\ [][NextFence]_vars

\* ------------------------------------------------------------------ block-math claims

\* the text of line l, and the same without its indentation
RawLine(l) == slice(src, bMarks(l), eMarks(l))
LineBody(l) == slice(src, bMarks(l) + tShift(l), eMarks(l))

StartsWithDD(l) == Len(LineBody(l)) >= 2 /\ SubSeq(LineBody(l), 1, 2) = DD

\* where a second $$ begins in the line body (1-based), after the opening one
SecondDDs(l) ==
  { i \in 3..(Len(LineBody(l)) - 1) : LineBody(l)[i] = "$" /\ LineBody(l)[i + 1] = "$" }
HasSecondDD(l) == SecondDDs(l) # {}

\* the text strictly between the opening $$ and the second $$ of line l
Between(l) == SubSeq(LineBody(l), 3, Min(SecondDDs(l)) - 1)

IsDelimiterLine(l) == trim(RawLine(l)) = DD

\* the delimiter lines after line l and before line e
ClosersOf(l, e) == { c \in (l + 1)..(e - 1) : IsDelimiterLine(c) }

Unterminated(l, e) == StartsWithDD(l) /\ ~HasSecondDD(l) /\ ClosersOf(l, e) = {}

LastToken == tokens[Len(tokens)]

\* C1: an opening $$ line with no second $$ on it and no delimiter line after
\* it before endLine makes the rule decline in silent and in non-silent mode,
\* with no token pushed and state.line where it was; no math_block token ever
\* starts at such a line.
C1_UnterminatedDeclines ==
  /\ (last.rule = "math_block" /\ Unterminated(last.start, last.stop))
       => (~last.ret /\ Len(tokens) = last.ntok /\ line = last.before)
  /\ \A i \in 1..Len(tokens) :
       tokens[i].type = "math_block" => ~Unterminated(tokens[i].map[1], endLine)

\* C1 witness: the rule has just declined an unterminated opening line that has
\* further lines after it
C1_Witness ==
  /\ last.rule = "math_block"
  /\ ~last.silent
  /\ Unterminated(last.start, last.stop)
  /\ last.start + 1 < last.stop
  /\ ~last.ret
  /\ line = last.start

\* C2: single-line form: a non-silent call on a line with a second $$ pushes
\* exactly one math_block token, its content the trimmed text between the two
\* $$, its map [startLine, startLine + 1], and state.line moves on by one line.
C2_SingleLineForm ==
  (last.rule = "math_block" /\ ~last.silent
     /\ StartsWithDD(last.start) /\ HasSecondDD(last.start))
  => /\ last.ret
     /\ Len(tokens) = last.ntok + 1
     /\ LastToken = Token("math_block", "div", trim(Between(last.start)),
                          <<last.start, last.start + 1>>)
     /\ line = last.before + 1

\* C2 witness: a single-line block whose inner text had whitespace to trim
C2_Witness ==
  /\ last.rule = "math_block"
  /\ ~last.silent
  /\ StartsWithDD(last.start) /\ HasSecondDD(last.start)
  /\ Len(tokens) = last.ntok + 1
  /\ LastToken.content = <<"x">>
  /\ Len(Between(last.start)) > 1

\* line l without at most k characters of its indentation
Dedent(l, k) ==
  slice(src, bMarks(l) + (IF tShift(l) < k THEN tShift(l) ELSE k), eMarks(l))

\* the multi-line form applies at the latest call and closes at line c
MultiLineAt(c) ==
  /\ last.rule = "math_block"
  /\ ~last.silent
  /\ StartsWithDD(last.start)
  /\ ~HasSecondDD(last.start)
  /\ ClosersOf(last.start, last.stop) # {}
  /\ c = Min(ClosersOf(last.start, last.stop))

EmptyPair(l, e) ==
  /\ StartsWithDD(l)
  /\ \/ HasSecondDD(l) /\ trim(Between(l)) = <<>>
     \/ /\ ~HasSecondDD(l)
        /\ trim(LineBody(l)) = DD
        /\ ClosersOf(l, e) # {}
        /\ \A m \in (l + 1)..(Min(ClosersOf(l, e)) - 1) : trim(RawLine(m)) = <<>>

\* C7: a $$ pair with empty or whitespace-only content yields no math token.
C7_EmptyPairNoToken ==
  /\ (last.rule = "math_block" /\ EmptyPair(last.start, last.stop))
       => Len(tokens) = last.ntok
  /\ \A i \in 1..Len(tokens) :
       tokens[i].type \in {"math_block", "math_inline"} => trim(tokens[i].content) # <<>>

\* C22: a silent call of the block-math rule returns the verdict the
\* non-silent call returns in the same parser state, pushes no token and
\* leaves state.line where it was.
C22_SilentSameVerdict ==
  (last.rule = "math_block" /\ last.silent)
  => /\ last.ret = blockMathRule(tokens, line, last.start, last.stop, FALSE).ret
     /\ last.ret = (StartsWithDD(last.start)
                     /\ (HasSecondDD(last.start) \/ ClosersOf(last.start, last.stop) # {}))
     /\ Len(tokens) = last.ntok
     /\ line = last.before

\* C22 witness: a silent call has just matched a multi-line block that starts
\* after an earlier token, and nothing was pushed
C22_Witness ==
  /\ last.rule = "math_block"
  /\ last.silent
  /\ last.ret
  /\ ~HasSecondDD(last.start)
  /\ ClosersOf(last.start, last.stop) # {}
  /\ last.ntok >= 1
  /\ Len(tokens) = last.ntok
  /\ line = last.start

\* how often the character c occurs in the text t
Occurrences(t, c) == Cardinality({ i \in 1..Len(t) : t[i] = c })

\* the source text of the lines first..(after - 1)
ConsumedText(first, after) == slice(src, bMarks(first), eMarks(after - 1))

\* C25: after a non-silent match every non-whitespace character of the
\* consumed lines is part of the opening or the closing $$ or is in the content
\* of the pushed token: the content has as many x as the consumed lines, and
\* four $ fewer.
C25_NoTextLost ==
  (last.rule = "math_block" /\ ~last.silent /\ last.ret)
  => LET consumed == ConsumedText(last.start, last.after)
         content  == LastToken.content
     IN  /\ Occurrences(content, "x") = Occurrences(consumed, "x")
         /\ Occurrences(content, "$") + 4 = Occurrences(consumed, "$")

\* ------------------------------------------------------------------ inline-math claims

\* the latest step called the inline rule at a $
CalledAtDollar == last.rule = "math_inline" /\ charAt(src, last.start) = "$"

\* the latest step was a call of the inline rule that matched; the closing $
\* is the character before the position the rule left
InlineMatched == last.rule = "math_inline" /\ last.ret
Closer == last.after - 1

\* the text of the text tokens, as the renderer writes it
RECURSIVE TextOf(_)
TextOf(toks) ==
  IF toks = <<>> THEN <<>>
  ELSE (IF Head(toks).type \in {"text", "text_special"} THEN Head(toks).content ELSE <<>>)
       \o TextOf(Tail(toks))

NoInlineMath == \A i \in 1..Len(tokens) : tokens[i].type # "math_inline"

\* a $$ pair begins at p: two $ in a row, the first one not behind a backslash
DollarPairAt(p) ==
  charAt(src, p) = "$" /\ charAt(src, p + 1) = "$" /\ charAt(src, p - 1) # BS

InDollarPair(p) == DollarPairAt(p) \/ DollarPairAt(p - 1)

\* C4: no inline match opens or closes at one of the $ of a $$ pair.
C4_NoDoubleDollarDelimiter ==
  InlineMatched => (~InDollarPair(last.start) /\ ~InDollarPair(Closer))

\* C5: a $ directly preceded by a backslash is neither opener nor closer: the
\* rule declines there and leaves the state alone, a match has no backslash
\* before either delimiter, a source whose every $ follows a backslash yields
\* no math token, and \$x yields the text $x.
C5_EscapedDollarNoDelimiter ==
  /\ (CalledAtDollar /\ charAt(src, last.start - 1) = BS)
       => (~last.ret /\ Len(tokens) = last.ntok /\ last.after = last.start)
  /\ InlineMatched
       => /\ charAt(src, last.start - 1) # BS
          /\ charAt(src, Closer) = "$"
          /\ charAt(src, Closer - 1) # BS
  /\ (\A p \in 0..(Len(src) - 1) : charAt(src, p) = "$" => charAt(src, p - 1) = BS)
       => NoInlineMath
  /\ (pc = "done" /\ src = <<BS, "$", "x">>) => TextOf(tokens) = <<"$", "x">>

\* C5 witness: a match whose scan for the closing $ passed over an escaped $
C5_Witness ==
  /\ InlineMatched
  /\ ~last.silent
  /\ \E e \in (last.start + 1)..(Closer - 1) :
       charAt(src, e) = "$" /\ charAt(src, e - 1) = BS
  /\ tokens[Len(tokens)].type = "math_inline"

\* number of backslashes directly before position p
BackslashRun(p) ==
  Max({ k \in 0..p : \A j \in 1..k : charAt(src, p - j) = BS })

\* a $ at p that is not escaped: the backslashes before it pair up
UnescapedDollar(p) == charAt(src, p) = "$" /\ BackslashRun(p) % 2 = 0

\* the unescaped $ after the opening one
UnescapedClosers(start) == { e \in (start + 1)..(Len(src) - 1) : UnescapedDollar(e) }

\* C6: a $ preceded by an escaped backslash (an even run of backslashes) still
\* opens and closes inline math: called at an unescaped $ that is not followed
\* by $, with an unescaped $ further on and text in between, the rule matches
\* and closes at the nearest unescaped $.
C6_EscapedBackslashEligible ==
  (/\ CalledAtDollar
   /\ UnescapedDollar(last.start)
   /\ charAt(src, last.start + 1) # "$"
   /\ UnescapedClosers(last.start) # {}
   /\ trim(slice(src, last.start + 1, Min(UnescapedClosers(last.start)))) # <<>>)
  => (last.ret /\ last.after = Min(UnescapedClosers(last.start)) + 1)

\* the latest call was made at an opening $ the rule accepts: not followed by
\* $ and not directly behind a backslash
AcceptedOpening ==
  /\ CalledAtDollar
  /\ ~(last.start + 1 < last.stop /\ charAt(src, last.start + 1) = "$")
  /\ charAt(src, last.start - 1) # BS

\* the $ after position start that are not directly preceded by a backslash
ClosingCandidates(start) ==
  { e \in (start + 1)..(Len(src) - 1) : charAt(src, e) = "$" /\ charAt(src, e - 1) # BS }

\* the math_inline tokens of the stream
InlineMathTokens == { i \in 1..Len(tokens) : tokens[i].type = "math_inline" }

\* x$x $x, the shape of `costs $5 and $10`
CostsText == <<"x", "$", "x", " ", "$", "x">>

\* C23: from an accepted opening $, a match closes at the nearest later $ not
\* directly preceded by a backslash, and the rule matches there whenever the
\* text up to it is not blank; with no such $ the rule declines, pushes
\* nothing and leaves state.pos on the opening $; x$x $x yields one span with
\* the content `x `.
C23_NearestCloser ==
  /\ InlineMatched
       => /\ AcceptedOpening
          /\ ClosingCandidates(last.start) # {}
          /\ Closer = Min(ClosingCandidates(last.start))
  /\ (/\ AcceptedOpening
      /\ ClosingCandidates(last.start) # {}
      /\ trim(slice(src, last.start + 1, Min(ClosingCandidates(last.start)))) # <<>>)
       => last.ret
  /\ (AcceptedOpening /\ ClosingCandidates(last.start) = {})
       => /\ ~last.ret
          /\ Len(tokens) = last.ntok
          /\ last.after = last.start
          /\ pos = last.start
  /\ (pc = "done" /\ src = CostsText)
       => /\ Cardinality(InlineMathTokens) = 1
          /\ \A i \in InlineMathTokens : tokens[i].content = <<"x", " ">>

\* C23 witness: a non-silent match from an opening $ that had two closing
\* candidates after it
C23_Witness ==
  /\ InlineMatched
  /\ ~last.silent
  /\ Cardinality(ClosingCandidates(last.start)) >= 2
  /\ tokens[Len(tokens)].type = "math_inline"
  /\ pos = Min(ClosingCandidates(last.start)) + 1

\* the text between the opening $ of the latest call and its nearest closing
\* candidate
ContentAt(start) == slice(src, start + 1, Min(ClosingCandidates(start)))

\* C24: from an accepted opening $ with a closing candidate, blank text between
\* the delimiters makes the rule decline with no token and state.pos
\* unchanged; otherwise a non-silent call pushes a math_inline token whose
\* content is the untrimmed text between the delimiters, and state.pos is
\* directly after the closing $.
C24_ContentRule ==
  (AcceptedOpening /\ ClosingCandidates(last.start) # {})
  => IF trim(ContentAt(last.start)) = <<>>
     THEN /\ ~last.ret
          /\ Len(tokens) = last.ntok
          /\ last.after = last.start
          /\ pos = last.start
     ELSE /\ last.ret
          /\ last.after = Min(ClosingCandidates(last.start)) + 1
          /\ ~last.silent
               => /\ tokens[Len(tokens)] =
                       Token("math_inline", "span", ContentAt(last.start), <<>>)
                  /\ Cardinality(InlineMathTokens) =
                       Cardinality({ i \in 1..last.ntok : tokens[i].type = "math_inline" }) + 1
                  /\ pos = Min(ClosingCandidates(last.start)) + 1

\* C24 witness: a non-silent match whose content begins and ends with a space
C24_Witness ==
  /\ InlineMatched
  /\ ~last.silent
  /\ tokens[Len(tokens)].type = "math_inline"
  /\ Len(tokens[Len(tokens)].content) >= 3
  /\ Head(tokens[Len(tokens)].content) = " "
  /\ tokens[Len(tokens)].content[Len(tokens[Len(tokens)].content)] = " "

\* ------------------------------------------------------------------ render claims

\* HTML-escaping of a text, character by character
EntityOf(c) ==
  IF c = "&" THEN AMP
  ELSE IF c = "<" THEN LT
  ELSE IF c = ">" THEN GT
  ELSE IF c = "\"" THEN QUOT
  ELSE <<c>>

EscapedText(t) == Flatten([i \in 1..Len(t) |-> EntityOf(t[i])])

StartsWith(t, p) == Len(t) >= Len(p) /\ SubSeq(t, 1, Len(p)) = p

\* HTML-unescaping of a text: one pass from the left, each entity decoded once
RECURSIVE HtmlUnescape(_)
HtmlUnescape(t) ==
  IF t = <<>> THEN <<>>
  ELSE IF StartsWith(t, AMP) THEN <<"&">> \o HtmlUnescape(SubSeq(t, Len(AMP) + 1, Len(t)))
  ELSE IF StartsWith(t, LT) THEN <<"<">> \o HtmlUnescape(SubSeq(t, Len(LT) + 1, Len(t)))
  ELSE IF StartsWith(t, GT) THEN <<">">> \o HtmlUnescape(SubSeq(t, Len(GT) + 1, Len(t)))
  ELSE IF StartsWith(t, QUOT) THEN <<"\"">> \o HtmlUnescape(SubSeq(t, Len(QUOT) + 1, Len(t)))
  ELSE <<Head(t)>> \o HtmlUnescape(Tail(t))

\* C8: rendering a math token never raises and every token gets its fragment:
\* when the typesetter returns, the block fragment is its markup inside
\* <div class="katex-block"> and the inline fragment is the markup alone; when
\* it throws, the fragment is a math-error element holding the HTML-escaped
\* message ('Unknown error' when what was thrown is no Error), and the tokens
\* after it are rendered all the same.
C8_MathRenderNeverRaises ==
  /\ pc # "raised"
  /\ Len(out) = idx
  /\ Len(lib) = idx
  /\ pc = "done" => Len(out) = Len(tokens)
  /\ \A i \in 1..Len(out) :
       LET block == tokens[i].type = "math_block"
           msg   == IF lib[i].kind = "error" THEN lib[i].value ELSE UNKNOWN_ERROR
       IN  IF lib[i].kind = "ok"
           THEN out[i] = (IF block THEN KATEX_BLOCK_OPEN \o lib[i].value \o DIV_CLOSE
                                   ELSE lib[i].value)
           ELSE out[i] = (IF block THEN MATH_ERROR_DIV \o EscapedText(msg) \o DIV_CLOSE
                                   ELSE MATH_ERROR_SPAN \o EscapedText(msg) \o SPAN_CLOSE)

\* C8 witness: the typesetter threw an Error with markup in its message on the
\* first token, a block, and the second token was still rendered
C8_Witness ==
  /\ pc = "done"
  /\ Len(tokens) = 2
  /\ tokens[1].type = "math_block"
  /\ lib[1] = ThrewError(<<"<", "&">>)
  /\ lib[2].kind = "ok"
  /\ Len(out) = 2

\* the fence at index i names the diagram language
IsMermaid(i) == trim(tokens[i].info) = MERMAID

\* C9: a fence whose trimmed info string is `mermaid` renders, without a call
\* of the highlighter and without pre/code, as <div class="mermaid">, the
\* escaped body and </div>; unescaping the text between the tags gives back
\* the body.
C9_MermaidRoundTrip ==
  \A i \in 1..Len(out) :
    IsMermaid(i)
    => LET h     == out[i]
           inner == SubSeq(h, Len(MERMAID_OPEN) + 1, Len(h) - Len(DIV_CLOSE))
       IN  /\ lib[i] = NotCalled
           /\ Len(h) >= Len(MERMAID_OPEN) + Len(DIV_CLOSE)
           /\ StartsWith(h, MERMAID_OPEN)
           /\ SubSeq(h, Len(h) - Len(DIV_CLOSE) + 1, Len(h)) = DIV_CLOSE
           /\ inner = EscapedText(tokens[i].content)
           /\ \A k \in 1..Len(inner) : inner[k] \notin {"<", ">", "\""}
           /\ HtmlUnescape(inner) = tokens[i].content

\* C9 witness: a rendered diagram fence, its info string padded with spaces,
\* whose body already holds the text &amp; and a <
C9_Witness ==
  /\ Len(out) = 1
  /\ IsMermaid(1)
  /\ tokens[1].info # MERMAID
  /\ tokens[1].content = AMP \o <<"<">>

\* the fence at index i names a language the highlighter does not know
IsUnknownLanguage(i) ==
  /\ trim(tokens[i].info) # <<>>
  /\ trim(tokens[i].info) # MERMAID
  /\ ~getLanguage(trim(tokens[i].info))

PRE_CODE ==
  <<"<", "p", "r", "e", ">", "<", "c", "o", "d", "e">>

\* C10 (as stated): a fence in an unknown language renders as
\* <pre><code class="language-LANG"> followed by the escaped body.
C10_PlainPreCode ==
  \A i \in 1..Len(out) :
    IsUnknownLanguage(i)
    => StartsWith(out[i], PRE_CODE \o LANGUAGE_CLASS \o trim(tokens[i].info)
                            \o <<"\"", ">">> \o EscapedText(tokens[i].content))

\* C10 (amended): a fence in an unknown language renders, without a call of
\* the highlighter, as <pre class="hljs"><code class="language-LANG">, the
\* escaped body and </code></pre>.
C10_UnknownLanguage ==
  \A i \in 1..Len(out) :
    IsUnknownLanguage(i)
    => /\ lib[i] = NotCalled
       /\ out[i] = PRE_HLJS_CODE \o LANGUAGE_CLASS \o trim(tokens[i].info)
                     \o <<"\"", ">">> \o EscapedText(tokens[i].content)
                     \o CODE_PRE_CLOSE

\* C10 witness: a rendered fence in the language foo with markup in its body
C10_Witness ==
  /\ Len(out) = 1
  /\ trim(tokens[1].info) = FOO
  /\ tokens[1].content = <<"<", "a">>

\* `<pre class="hljs">`
PRE_HLJS ==
  <<"<", "p", "r", "e", " ", "c", "l", "a", "s", "s", "=", "\"", "h", "l",
    "j", "s", "\"", ">">>

\* the opening tag of the code element of a rendered fence: the text after
\* <pre class="hljs"> up to the first >
CodeOpenTag(h) == slice(h, Len(PRE_HLJS), indexOf(h, <<">">>, Len(PRE_HLJS)) + 1)

\* the opening code tag is <code>, or <code class="V"> with no quote in V
OneClassAttribute(tag, lang) ==
  \/ tag = <<"<", "c", "o", "d", "e", ">">>
  \/ /\ tag = <<"<", "c", "o", "d", "e">> \o LANGUAGE_CLASS \o lang \o <<"\"", ">">>
     /\ \A k \in 1..Len(lang) : lang[k] # "\""

\* C11: the fence rule returns for every token, and in the fragment of a
\* fence that is not a diagram the code element opens with a tag that has no
\* attribute besides the one class attribute the rule writes: the info string
\* cannot close the attribute value and add markup of its own.
C11_FenceWellFormed ==
  /\ pc # "raised"
  /\ Len(out) = idx
  /\ \A i \in 1..Len(out) :
       ~IsMermaid(i)
       => /\ StartsWith(out[i], PRE_HLJS)
          /\ OneClassAttribute(CodeOpenTag(out[i]), trim(tokens[i].info))

\* ------------------------------------------------------------------ md.render

\* an HTML node: an element with its attributes and its text, or a text node
Element(tag, attrs, text) == [tag |-> tag, attrs |-> attrs, text |-> text]
Text(text) == [tag |-> "#text", attrs |-> {}, text |-> text]

\* what katex.renderToString returns for $x$: MathML plus the visual markup
KatexNodes ==
  << Element("span", {<<"class", "katex">>}, ""),
     Element("math", {<<"xmlns", "http://www.w3.org/1998/Math/MathML">>}, ""),
     Element("semantics", {}, ""),
     Element("mrow", {}, ""),
     Element("mi", {}, "x"),
     Element("annotation", {<<"encoding", "application/x-tex">>}, "x"),
     Element("span", {<<"class", "katex-html">>, <<"aria-hidden", "true">>}, ""),
     Element("span", {<<"class", "strut">>, <<"style", "height:0.4306em;">>}, "") >>

\* the pieces of markdown source the documents are made of
Pieces ==
  { "a", "**b**", "<strong>Bold</strong>", "<em>italic</em>",
    "<script>alert(1)</script>", "<img src=x onerror=alert(1)>",
    "<a href=javascript:alert(1)>x</a>", "[x](javascript:alert(1))",
    "<foo>t</foo>", "$x$", "$\\href{javascript:alert(1)}{x}$",
    "http://a.b", "\n", "(c)" }

\* the pieces that are raw HTML in the source
RawHtml(p) ==
  CASE p = "<strong>Bold</strong>" -> <<Element("strong", {}, "Bold")>>
    [] p = "<em>italic</em>" -> <<Element("em", {}, "italic")>>
    [] p = "<script>alert(1)</script>" -> <<Element("script", {}, "alert(1)")>>
    [] p = "<img src=x onerror=alert(1)>" ->
         <<Element("img", {<<"src", "x">>, <<"onerror", "alert(1)">>}, "")>>
    [] p = "<a href=javascript:alert(1)>x</a>" ->
         <<Element("a", {<<"href", "javascript:alert(1)">>}, "x")>>
    [] p = "<foo>t</foo>" -> <<Element("foo", {}, "t")>>
    [] OTHER -> <<>>

\* md.render of one piece by the renderer md: raw HTML passes only with the
\* html option (else it is escaped text), linkify links bare URLs, breaks turns
\* a line feed into <br>, typographer replaces (c); a javascript: link target
\* fails markdown-it's validateLink and stays text; math goes through katex
\* with trust: true
renderPiece(md, p) ==
  CASE RawHtml(p) # <<>> -> (IF md.html THEN RawHtml(p) ELSE <<Text(p)>>)
    [] p = "**b**" -> <<Element("strong", {}, "b")>>
    [] p = "[x](javascript:alert(1))" -> <<Text(p)>>
    [] p = "$x$" -> KatexNodes
    [] p = "$\\href{javascript:alert(1)}{x}$" ->
         KatexNodes \o <<Element("a", {<<"href", "javascript:alert(1)">>}, "x")>>
    [] p = "http://a.b" ->
         (IF md.linkify THEN <<Element("a", {<<"href", p>>}, p)>> ELSE <<Text(p)>>)
    [] p = "\n" -> (IF md.breaks THEN <<Element("br", {}, "")>> ELSE <<Text(p)>>)
    [] p = "(c)" -> (IF md.typographer THEN <<Text("(C)")>> ELSE <<Text(p)>>)
    [] OTHER -> <<Text(p)>>

\* md.render(content)
render(md, content) == Flatten([i \in 1..Len(content) |-> renderPiece(md, content[i])])

\* ------------------------------------------------------------------ DOMPurify

\* the options renderMarkdownSafe hands to DOMPurify.sanitize
SANITIZE_CONFIG_onerror ==
  [ADD_TAGS |-> {"math", "semantics", "annotation"},
   ADD_ATTR |-> {"class", "style", "aria-hidden", "onerror"},
   ALLOW_DATA_ATTR |-> TRUE]

SANITIZE_CONFIG ==
  [ADD_TAGS |-> {"math", "semantics", "mrow", "mi", "mo", "mn", "msup", "msub",
                 "mfrac", "mroot", "msqrt", "mtext", "mspace", "mover", "munder",
                 "mtable", "mtr", "mtd", "annotation"},
   ADD_ATTR |-> {"class", "style", "aria-hidden", "focusable", "role", "xmlns",
                 "encoding"},
   ALLOW_DATA_ATTR |-> TRUE]

\* DOMPurify's own allow lists, as far as the nodes of this model go
DEFAULT_ALLOWED_TAGS ==
  {"a", "br", "code", "div", "em", "img", "p", "pre", "span", "strong",
   "math", "mrow", "mi", "mo", "mn"}

DEFAULT_ALLOWED_ATTR == {"href", "src", "alt", "title", "class", "style"}

\* elements DOMPurify drops together with their content
FORBID_CONTENTS == {"script", "style", "iframe", "noscript"}

\* attribute values DOMPurify's URI test refuses
ScriptUrls == {"javascript:alert(1)"}

\* DOMPurify.sanitize on one node: a text node stays; an element outside the
\* allow list goes, and its text stays unless the element forbids its content;
\* an allowed element keeps the attributes on the allow list whose value passes
\* the URI test
sanitizeNode(n, cfg) ==
  IF n.tag = "#text" THEN <<n>>
  ELSE IF n.tag \notin DEFAULT_ALLOWED_TAGS \cup cfg.ADD_TAGS
  THEN (IF n.tag \in FORBID_CONTENTS \/ n.text = "" THEN <<>> ELSE <<Text(n.text)>>)
  ELSE <<Element(n.tag,
                 { a \in n.attrs : /\ a[1] \in DEFAULT_ALLOWED_ATTR \cup cfg.ADD_ATTR
                                   /\ a[2] \notin ScriptUrls },
                 n.text)>>

\* DOMPurify.sanitize(html, cfg)
sanitize(html, cfg) == Flatten([i \in 1..Len(html) |-> sanitizeNode(html[i], cfg)])

\* ------------------------------------------------------------------ lib/markdown

\* options.key ?? dflt, for an option read as "true", "false" or "undefined"
Coalesce(v, dflt) == IF v = "undefined" THEN dflt ELSE v = "true"

\* createMarkdownRenderer(options), the n-th construction of a renderer
createMarkdownRenderer(options, n) ==
  Renderer(n, Coalesce(options.val["html"], TRUE),
              Coalesce(options.val["linkify"], TRUE),
              Coalesce(options.val["typographer"], TRUE),
              Coalesce(options.val["breaks"], FALSE))

\* getMarkdownRenderer(): the memoized instance and the number of renderers
\* built, after the call
getMarkdownRenderer_always(md, n) ==
  [md |-> createMarkdownRenderer(NoMdOptions, n + 1), made |-> n + 1]

getMarkdownRenderer(md, n) ==
  IF md = NULL
  THEN [md |-> createMarkdownRenderer(NoMdOptions, n + 1), made |-> n + 1]
  ELSE [md |-> md, made |-> n]

\* renderMarkdown(content)
renderMarkdown(content, md, n) ==
  LET g == getMarkdownRenderer(md, n)
  IN  [html |-> render(g.md, content), md |-> g.md, made |-> g.made, inst |-> g.md.id]

\* renderMarkdownWithOptions(content, markdownOptions)
renderMarkdownWithOptions_memoizeCustom(content, markdownOptions, md, n) ==
  IF markdownOptions.given /\ Cardinality(markdownOptions.keys) > 0
  THEN LET customMd == createMarkdownRenderer(markdownOptions, n + 1)
       IN  [html |-> render(customMd, content), md |-> customMd, made |-> n + 1,
            inst |-> customMd.id]
  ELSE renderMarkdown(content, md, n)

renderMarkdownWithOptions(content, markdownOptions, md, n) ==
  IF markdownOptions.given /\ Cardinality(markdownOptions.keys) > 0
  THEN LET customMd == createMarkdownRenderer(markdownOptions, n + 1)
       IN  [html |-> render(customMd, content), md |-> md, made |-> n + 1,
            inst |-> customMd.id]
  ELSE renderMarkdown(content, md, n)

\* renderMarkdownSafe(content, options): what it returns, whether the
\* sanitizer ran, and the module state it leaves
renderMarkdownSafe_truthy(content, options, md, n) ==
  LET r == renderMarkdownWithOptions(content, options.markdownOptions, md, n)
      s == options.sanitize = "true"
  IN  [html |-> r.html, sanitized |-> s,
       output |-> IF s THEN sanitize(r.html, SANITIZE_CONFIG) ELSE r.html,
       md |-> r.md, made |-> r.made, inst |-> r.inst]

renderMarkdownSafe(content, options, md, n) ==
  LET r == renderMarkdownWithOptions(content, options.markdownOptions, md, n)
      s == options.sanitize # "false"
  IN  [html |-> r.html, sanitized |-> s,
       output |-> IF s THEN sanitize(r.html, SANITIZE_CONFIG) ELSE r.html,
       md |-> r.md, made |-> r.made, inst |-> r.inst]

\* the documents rendered
Documents ==
  { <<"<script>alert(1)</script>">>,
    <<"a", "<script>alert(1)</script>">>,
    <<"<img src=x onerror=alert(1)>">>,
    <<"<a href=javascript:alert(1)>x</a>">>,
    <<"[x](javascript:alert(1))">>,
    <<"<strong>Bold</strong>", "<em>italic</em>">>,
    <<"**b**", "$x$">>,
    <<"$\\href{javascript:alert(1)}{x}$">>,
    <<"<foo>t</foo>">>,
    <<"http://a.b", "\n", "(c)">> }

\* the markdownOptions objects callers pass
MdOptionObjects ==
  { MdOptions({}, [k \in {} |-> "undefined"]),
    MdOptions({"html"}, [html |-> "undefined"]),
    MdOptions({"html", "gfm"}, [html |-> "false", gfm |-> "true"]),
    MdOptions({"linkify", "typographer", "breaks"},
              [linkify |-> "false", typographer |-> "false", breaks |-> "true"]) }

MdOptionArgs == {NoMdOptions} \cup MdOptionObjects

\* the options arguments of renderMarkdownSafe
RenderOptionArgs ==
  {NoOptions, RenderOptions({}, "undefined", NoMdOptions)}
    \cup { RenderOptions({"sanitize", "markdownOptions"}, sn, mo) :
             sn \in {"true", "false", "undefined"}, mo \in MdOptionArgs }

\* one call of renderMarkdownSafe(content, options) made from `surface`
Render(surface, content, options) ==
  LET r == renderMarkdownSafe(content, options, mdInstance, made)
  IN  /\ ncalls < MaxCalls
      /\ ncalls' = ncalls + 1
      /\ mdInstance' = r.md
      /\ made' = r.made
      /\ call' = [surface |-> surface, content |-> content, options |-> options,
                  inst |-> r.inst, mdBefore |-> mdInstance, html |-> r.html,
                  output |-> r.output, sanitized |-> r.sanitized]
      /\ UNCHANGED <<coreVars, browserVars, pkgVars>>

\* no parser or renderer loop is running
CoreIdle ==
  /\ pc = "idle"
  /\ src = <<>>
  /\ marks = lineTables(<<>>)
  /\ endLine = 0
  /\ line = 0
  /\ pos = 0
  /\ pending = <<>>
  /\ tokens = <<>>
  /\ last = NoCall
  /\ idx = 0
  /\ out = <<>>
  /\ lib = <<>>

InitSafe ==
  /\ CoreIdle
  /\ AppIdle

\* a caller of the library (a test, a user of the package) renders
RenderMarkdownSafe ==
  \E content \in Documents, options \in RenderOptionArgs :
    Render("renderMarkdownSafe", content, options)

\* mdToPdf renders the document: sanitize: true and the merged markdown_options
MdToPdfRender ==
  \E content \in Documents, mo \in MdOptionArgs :
    Render("mdToPdf", content, RenderOptions({"sanitize", "markdownOptions"}, "true", mo))

\* POST /api/export renders body.markdown: sanitize: true, and in the variant
\* with options, markdownOptions: body.options?.markdownOptions || {}
ExportRender ==
  \E content \in Documents :
    \/ Render("export", content, RenderOptions({"sanitize"}, "true", NoMdOptions))
    \/ \E mo \in MdOptionObjects :
         Render("export", content, RenderOptions({"sanitize", "markdownOptions"}, "true", mo))

\* the preview page renders the editor text: no sanitize key
PreviewRender ==
  \E content \in Documents :
    \/ Render("preview", content, NoOptions)
    \/ \E mo \in MdOptionObjects :
         Render("preview", content, RenderOptions({"markdownOptions"}, "undefined", mo))

NextSafe ==
  \/ RenderMarkdownSafe
  \/ MdToPdfRender
  \/ ExportRender
  \/ PreviewRender

SpecSafe == InitSafe /\ [][NextSafe]_vars

\* ------------------------------------------------------------------ lib/markdown claims

\* the surfaces of the repository that show rendered markdown
Surfaces == {"mdToPdf", "export", "preview"}

\* C12: renderMarkdownSafe skips the sanitizer exactly when options.sanitize
\* is false: then it returns the renderer's HTML as it is; with options left
\* out, sanitize absent, undefined or true the sanitizer runs; and mdToPdf, the
\* export route and the preview page always get sanitized output.
C12_SanitizeByDefault ==
  call.surface # "none"
  => /\ call.sanitized <=> call.options.sanitize # "false"
     /\ ~call.options.given => call.sanitized
     /\ ~call.sanitized => call.output = call.html
     /\ call.surface \in Surfaces => call.sanitized

\* C12 witness: the preview page rendered a document with a script element
\* without passing options, and the sanitizer changed the HTML
C12_Witness ==
  /\ call.surface = "preview"
  /\ ~call.options.given
  /\ call.sanitized
  /\ call.output # call.html

\* attributes that run script when the element fires the event
EventHandlers == {"onerror", "onclick", "onload"}

\* markup that has to survive: strong, em, and what katex produced
IsSafeMarkup(n) ==
  \/ n.tag \in {"strong", "em"}
  \/ \E k \in 1..Len(KatexNodes) : n = KatexNodes[k]

\* C13: sanitized output has no script element and none of its text, no
\* event-handler attribute and no javascript: URL, whatever the document and
\* the renderer options; strong, em and the math markup are kept as they were.
C13_NoScriptingVector ==
  call.sanitized
  => /\ \A i \in 1..Len(call.output) :
          LET n == call.output[i]
          IN  /\ n.tag # "script"
              /\ n.text # "alert(1)"
              /\ \A a \in n.attrs : a[1] \notin EventHandlers /\ a[2] \notin ScriptUrls
     /\ SelectSeq(call.output, IsSafeMarkup) = SelectSeq(call.html, IsSafeMarkup)

\* C13 witness: a sanitized call whose rendered HTML had a script element, and
\* one whose HTML had an event handler
C13_Witness ==
  /\ call.sanitized
  /\ \E i \in 1..Len(call.html) :
       \/ call.html[i].tag = "script"
       \/ \E a \in call.html[i].attrs : a[1] = "onerror"
  /\ call.output # <<>>

\* the call passed a markdownOptions object with at least one key
HasOverrides(c) == c.options.markdownOptions.given /\ c.options.markdownOptions.keys # {}

\* C14: a call without overrides is served by the memoized renderer, which is
\* built by that call when there was none and is never built again or replaced
\* afterwards; a call with overrides is served by a renderer built for it, and
\* leaves the memoized one as it was.
C14_RendererSelection ==
  call.surface # "none"
  => IF HasOverrides(call)
     THEN /\ call.inst = made
          /\ call.inst # mdInstance.id
          /\ mdInstance = call.mdBefore
     ELSE /\ mdInstance # NULL
          /\ call.inst = mdInstance.id
          /\ call.mdBefore = NULL => call.inst = made
          /\ call.mdBefore # NULL => mdInstance = call.mdBefore

\* C14 witness: the second call passed an empty markdownOptions object and was
\* served by the renderer the first call had built
C14_Witness ==
  /\ ncalls = 2
  /\ call.options.markdownOptions.given
  /\ ~HasOverrides(call)
  /\ call.mdBefore # NULL
  /\ made = 1

\* what the call returns when it is the first call after the module is loaded
FirstCallOutput(content, options) == renderMarkdownSafe(content, options, NULL, 0).output

Undefined == [type |-> "undefined", v |-> ""]
Str(s) == [type |-> "string", v |-> s]
Bool(b) == [type |-> "boolean", v |-> IF b THEN "true" ELSE "false"]
Num(s) == [type |-> "number", v |-> s]
Arr(items) == [type |-> "array", v |-> items]
Obj(members) == [type |-> "object", v |-> members]
\* a markdown text, as its lines
MdText(lines) == [type |-> "text", v |-> lines]

\* {}
EmptyObject == [k \in {} |-> Undefined]

\* obj.key, for a members function and for a value that may be undefined
Member(members, k) == IF k \in DOMAIN members THEN members[k] ELSE Undefined
Prop(value, k) == IF value.type = "object" THEN Member(value.v, k) ELSE Undefined

\* !value
Falsy(value) ==
  \/ value.type = "undefined"
  \/ value.type = "string" /\ value.v = ""
  \/ value.type = "boolean" /\ value.v = "false"
  \/ value.type = "number" /\ value.v = "0"
  \/ value.type = "text" /\ value.v = <<>>

\* a || b
OrElse(a, b) == IF Falsy(a) THEN b ELSE a

\* a ?? b
Nullish(a, b) == IF a.type = "undefined" THEN b ELSE a

\* { ...a, ...b } for two members functions
Spread(a, b) == [k \in DOMAIN a \cup DOMAIN b |-> IF k \in DOMAIN b THEN b[k] ELSE a[k]]

\* { ...x } for a value that may be undefined
SpreadOf(value) == IF value.type = "object" THEN value.v ELSE EmptyObject

\* members with obj[k] = value
With(members, k, value) == [j \in DOMAIN members \cup {k} |-> IF j = k THEN value ELSE members[j]]

\* { ...base, ...override, pdf_options: { ...base.pdf_options, ...override.pdf_options } }
mergeConfig_shallow(base, override) == Spread(base, override)

mergeConfig(base, override) ==
  With(Spread(base, override), "pdf_options",
       Obj(Spread(SpreadOf(Member(base, "pdf_options")),
                  SpreadOf(Member(override, "pdf_options")))))

\* ------------------------------------------------------------------ pkg: parseFrontmatter

\* a line of a markdown file.  kind says how parseFrontmatter reads the trimmed
\* line: "---" the delimiter, "blank" (empty or a # comment), "item" (starts
\* with "- "), "pair" (a colon after the first character: key and value are the
\* trimmed texts before and after it) or "text"; indent counts the spaces the
\* untrimmed line starts with
Line(indent, kind, key, value) == [indent |-> indent, kind |-> kind, key |-> key, value |-> value]
Delimiter == Line(0, "---", "", "---")
Pair(indent, key, value) == Line(indent, "pair", key, value)
Item(indent, value) == Line(indent, "item", "", value)

\* the line number of the closing --- that /^---\r?\n([\s\S]*?)\r?\n---\r?\n/
\* matches, 0 when the text does not match
frontmatterEnd(markdown) ==
  IF Len(markdown) < 3 \/ markdown[1] # Delimiter THEN 0
  ELSE LET closers == { j \in 3..Len(markdown) : markdown[j] = Delimiter }
       IN  IF closers = {} THEN 0 ELSE Min(closers)

\* values that Number() reads as a number
Numeric == {"0", "2", "30000"}

\* values JSON.parse reads, with what it returns
JsonObjects == {"{\"top\":\"1cm\"}"}
jsonParse(value) == Obj([k \in {"top"} |-> Str("1cm")])

\* the scalar reading of a value: true, false, a number or the string itself
parseScalar(value) ==
  IF value = "true" THEN Bool(TRUE)
  ELSE IF value = "false" THEN Bool(FALSE)
  ELSE IF value \in Numeric THEN Num(value)
  ELSE Str(value)

\* the reading of the value of a pdf_options sub-key
parseSubValue(value) ==
  IF value \in JsonObjects THEN jsonParse(value) ELSE parseScalar(value)

\* the loop variables before the first line
LoopStart == [config |-> EmptyObject, currentKey |-> "", isArray |-> FALSE, inPdfOptions |-> FALSE]

\* one pass of `for (const line of lines)`
parseLine(st, ln) ==
  LET pdf == SpreadOf(Member(st.config, "pdf_options"))
  IN
  IF ln.kind = "item"
  THEN IF st.currentKey # "" /\ st.isArray
       THEN LET cur   == Member(st.config, st.currentKey)
                items == IF cur.type = "array" THEN cur.v ELSE <<>>
            IN  [st EXCEPT !.config = With(st.config, st.currentKey, Arr(Append(items, ln.value)))]
       ELSE st
  ELSE IF ln.kind # "pair" THEN st
  ELSE IF ln.key = "pdf_options"
  THEN [config |-> With(st.config, "pdf_options", Obj(pdf)), currentKey |-> ln.key,
        isArray |-> FALSE, inPdfOptions |-> TRUE]
  ELSE IF ln.indent >= 2 /\ st.inPdfOptions
  THEN IF ln.value = ""
       THEN [st EXCEPT !.isArray = FALSE]
       ELSE [st EXCEPT !.isArray = FALSE,
                       !.config = With(st.config, "pdf_options",
                                       Obj(With(pdf, ln.key, parseSubValue(ln.value))))]
  ELSE IF ln.indent >= 4 /\ st.inPdfOptions
  THEN [st EXCEPT !.isArray = FALSE,
                  !.config = With(st.config, "pdf_options",
                                  Obj(With(pdf, "margin",
                                           Obj(With(SpreadOf(Member(pdf, "margin")),
                                                    ln.key, Str(ln.value))))))]
  ELSE IF ln.value = ""
  THEN [st EXCEPT !.inPdfOptions = FALSE, !.currentKey = ln.key, !.isArray = TRUE]
  ELSE [config |-> With(st.config, ln.key, parseScalar(ln.value)), currentKey |-> ln.key,
        isArray |-> FALSE, inPdfOptions |-> FALSE]

RECURSIVE parseLines(_, _)
parseLines(st, lines) ==
  IF lines = <<>> THEN st ELSE parseLines(parseLine(st, Head(lines)), Tail(lines))

\* parseFrontmatter(markdown): the text after the front matter and the
\* configuration read from it
parseFrontmatter(markdown) ==
  LET e == frontmatterEnd(markdown)
  IN  IF e = 0
      THEN [content |-> markdown, config |-> EmptyObject]
      ELSE [content |-> SubSeq(markdown, e + 1, Len(markdown)),
            config  |-> parseLines(LoopStart, SubSeq(markdown, 2, e - 1)).config]

\* ------------------------------------------------------------------ pkg: mdToPdf

\* one effect of a call on the world outside: a file read or written, a render
\* of markdown, a browser obtained, a PDF printed
Effect(op, arg) == [op |-> op, arg |-> arg]

\* the margin page.pdf gets when pdf_options has none
DEFAULT_MARGIN ==
  Obj([k \in {"top", "bottom", "left", "right"} |->
         IF k = "top" THEN Str("1.5cm") ELSE Str("1cm")])

\* the argument of page.pdf built from mergedConfig.pdf_options
pdfArguments(merged) ==
  LET pdfOptions == OrElse(Member(merged, "pdf_options"), Obj(EmptyObject))
  IN  Obj([k \in {"format", "margin", "printBackground", "landscape", "scale"} |->
             CASE k = "format" -> OrElse(Prop(pdfOptions, "format"), Str("A4"))
               [] k = "margin" -> OrElse(Prop(pdfOptions, "margin"), DEFAULT_MARGIN)
               [] k = "printBackground" -> Nullish(Prop(pdfOptions, "printBackground"), Bool(TRUE))
               [] k = "landscape" -> Nullish(Prop(pdfOptions, "landscape"), Bool(FALSE))
               [] OTHER -> Prop(pdfOptions, k)])

\* the tail of mdToPdf that saves the result: `if (dest && dest !== 'stdout')`
saveEffects(merged) ==
  LET dest == Member(merged, "dest")
  IN  IF ~Falsy(dest) /\ dest # Str("stdout")
      THEN <<Effect("mkdir", dest), Effect("writeFile", dest)>>
      ELSE IF dest = Str("stdout") THEN <<Effect("stdout", dest)>>
      ELSE <<>>

\* the arguments of the call renderMarkdownSafe(markdownContent, { sanitize:
\* true, markdownOptions: mergedConfig.markdown_options })
renderArguments(markdownContent, merged) ==
  Obj([k \in {"content", "sanitize", "markdownOptions"} |->
         CASE k = "content" -> MdText(markdownContent)
           [] k = "sanitize" -> Bool(TRUE)
           [] OTHER -> Member(merged, "markdown_options")])

\* a call that threw / a call that returned
Rejected(error, effects, merged) ==
  [outcome |-> "rejected", error |-> error, effects |-> effects, merged |-> merged]
Resolved(effects, merged) ==
  [outcome |-> "resolved", error |-> "", effects |-> effects, merged |-> merged]

\* mdToPdf(input, config): file is what fs.readFile finds at input.path
\* (undefined when there is no such file), browser is what the browser does
\* ("ok", "launch fails", "pdf fails")
mdToPdf_unchecked(input, config, file, browser) ==
  Resolved(<<Effect("render", Member(input, "content"))>>, config)

mdToPdf(input, config, file, browser) ==
  LET path     == Member(input, "path")
      usePath  == ~Falsy(path)
      markdown == IF usePath THEN file ELSE Member(input, "content")
      read     == IF usePath THEN <<Effect("readFile", path)>> ELSE <<>>
      fm       == parseFrontmatter(markdown.v)
      merged   == mergeConfig(config, fm.config)
      rendered == read \o <<Effect("render", renderArguments(fm.content, merged))>>
      launchOpts == IF ~Falsy(Member(merged, "devtools"))
                    THEN Obj(With(SpreadOf(Member(merged, "launch_options")), "headless", Bool(FALSE)))
                    ELSE Member(merged, "launch_options")
      launched == rendered \o <<Effect("getBrowser", launchOpts)>>
      printed  == launched \o <<Effect("pdf", pdfArguments(merged))>>
  IN  IF Falsy(path) /\ Falsy(Member(input, "content"))
      THEN Rejected("Either path or content must be provided", <<>>, EmptyObject)
      ELSE IF usePath /\ file.type = "undefined"
      THEN Rejected("ENOENT", read, EmptyObject)
      ELSE IF ~Falsy(Member(merged, "as_html"))
      THEN Resolved(rendered \o saveEffects(merged), merged)
      ELSE IF browser = "launch fails"
      THEN Rejected("browserType.launch", launched, merged)
      ELSE IF ~Falsy(Member(merged, "devtools"))
      THEN Rejected("DevTools mode: No output generated.", launched, merged)
      ELSE IF browser = "pdf fails"
      THEN Rejected("page.pdf", printed, merged)
      ELSE Resolved(printed \o saveEffects(merged), merged)

\* ------------------------------------------------------------------ pkg: generateHtml

\* values that close the element or attribute they are interpolated into and
\* open a script element
TITLE_BREAKOUT == "</title><script>alert(1)</script>"
STYLE_BREAKOUT == "</style><script>alert(1)</script>"
CLASS_BREAKOUT == "\"><script>alert(1)</script>"

\* the nodes a browser reads from `<title>${title}</title>`
titleNodes(title) ==
  IF title = TITLE_BREAKOUT
  THEN <<Element("title", {}, ""), Element("script", {}, "alert(1)")>>
  ELSE <<Element("title", {}, title)>>

\* the nodes a browser reads from `<style> ... ${customStyles} </style>`
styleNodes(customStyles) ==
  IF \E i \in 1..Len(customStyles) : customStyles[i] = STYLE_BREAKOUT
  THEN <<Element("style", {}, ""), Element("script", {}, "alert(1)")>>
  ELSE <<Element("style", {}, "")>>

\* the nodes a browser reads from `<div class="${bodyClasses}">${content}</div>`;
\* classes are the strings joined into bodyClasses
bodyNodes(classes, content) ==
  IF \E i \in 1..Len(classes) : classes[i] = CLASS_BREAKOUT
  THEN <<Element("div", {<<"class", <<>>>>}, ""), Element("script", {}, "alert(1)"),
         Text("\">")>> \o content
  ELSE <<Element("div", {<<"class", classes>>}, "")>> \o content

\* the two script elements of the template
TEMPLATE_SCRIPTS ==
  << Element("script", {<<"src", "https://cdn.jsdelivr.net/npm/mermaid@10/dist/mermaid.min.js">>}, ""),
     Element("script", {}, "mermaid.initialize({ startOnLoad: true, theme: 'default' });") >>

\* generateHtml(content, config, customStyles, customScripts): the nodes of the
\* document, in order
generateHtml(content, config, customStyles, customScripts) ==
  LET body_class  == Member(config, "body_class")
      bodyClasses == IF body_class.type = "array" THEN body_class.v
                     ELSE <<OrElse(body_class, Str("markdown-body")).v>>
      title       == OrElse(Member(config, "document_title"), Str("Document")).v
  IN  titleNodes(title)
        \o styleNodes(customStyles)
        \o <<TEMPLATE_SCRIPTS[1]>>
        \o bodyNodes(bodyClasses, content)
        \o <<TEMPLATE_SCRIPTS[2]>>
        \o customScripts

\* customStyles as mdToPdf builds it: `customStyles += '\n' + mergedConfig.css`
\* (the stylesheet files, which are other files than the input, are left out)
customStyles(merged) ==
  IF Falsy(Member(merged, "css")) THEN <<>> ELSE <<Member(merged, "css").v>>

\* htmlContent: the sanitized rendering of the body lines, which hold no markup
htmlContent(markdownContent) ==
  [i \in 1..Len(markdownContent) |-> Text(markdownContent[i].value)]

\* const fullHtml = generateHtml(htmlContent, mergedConfig, customStyles, customScripts),
\* for a configuration without the script option
fullHtml(markdownContent, merged) ==
  generateHtml(htmlContent(markdownContent), merged, customStyles(merged), <<>>)

\* markdown files and texts handed to mdToPdf
FrontmatterLines ==
  { Pair(0, "document_title", "T"), Pair(0, "as_html", "true"), Pair(0, "dest", "out.pdf"),
    Pair(0, "pdf_options", ""), Pair(2, "format", "Letter"), Pair(2, "margin", ""),
    Pair(4, "top", "3cm") }

\* number of lines of a generated front matter
MaxFmLines == 2

TextLine == Line(0, "text", "", "# Title")

Markdowns ==
  { <<Delimiter>> \o fm \o <<Delimiter, TextLine>> : fm \in SeqsUpTo(FrontmatterLines, MaxFmLines) }
    \cup
  { <<TextLine>>,
    <<Delimiter, Pair(0, "document_title", "T"), TextLine>>,
    <<Delimiter, Pair(0, "pdf_options", ""), Pair(2, "format", "Letter"),
      Pair(2, "margin", ""), Pair(4, "top", "3cm"), Pair(4, "bottom", "3cm"),
      Delimiter, TextLine>>,
    <<Delimiter, Pair(0, "pdf_options", ""), Pair(2, "landscape", "true"),
      Pair(2, "margin", "{\"top\":\"1cm\"}"), Pair(2, "scale", "2"), Delimiter, TextLine>>,
    <<Delimiter, Pair(0, "stylesheet", ""), Item(2, "a.css"), Item(2, "b.css"),
      Pair(0, "as_html", "false"), Delimiter, TextLine>>,
    <<Delimiter, Pair(0, "markdown_options", ""), Pair(2, "breaks", "true"),
      Pair(2, "html", "false"), Delimiter, TextLine>>,
    <<Delimiter, Pair(0, "document_title", TITLE_BREAKOUT), Delimiter, TextLine>>,
    <<Delimiter, Pair(0, "css", STYLE_BREAKOUT), Delimiter, TextLine>>,
    <<Delimiter, Pair(0, "body_class", CLASS_BREAKOUT), Delimiter, TextLine>> }

\* the config arguments of mdToPdf
Configs ==
  { EmptyObject,
    [k \in {"dest"} |-> Str("out.pdf")],
    [k \in {"dest", "as_html"} |-> IF k = "dest" THEN Str("stdout") ELSE Bool(TRUE)],
    [k \in {"document_title", "pdf_options"} |->
       IF k = "document_title" THEN Str("C")
       ELSE Obj([j \in {"format", "landscape"} |->
                   IF j = "format" THEN Str("A4") ELSE Bool(TRUE)])],
    [k \in {"devtools"} |-> Bool(TRUE)] }

\* the input arguments of mdToPdf for a text
Inputs(text) ==
  { [k \in keys |-> IF k = "path" THEN path ELSE content] :
      keys \in SUBSET {"path", "content"},
      path \in {Str(""), Str("a.md"), Str("missing.md")},
      content \in {MdText(<<>>), MdText(text)} }

InitPdf ==
  /\ CoreIdle
  /\ AppIdle

\* a caller of the package calls mdToPdf(input, config); the file a.md exists
\* and holds `text`, missing.md does not exist
MdToPdf ==
  /\ pdfCall.outcome = "none"
  /\ \E text \in Markdowns, config \in Configs,
        browser \in {"ok", "launch fails", "pdf fails"} :
       \E input \in Inputs(text) :
         LET file == IF Member(input, "path") = Str("a.md") THEN MdText(text) ELSE Undefined
             r    == mdToPdf(input, config, file, browser)
         IN  pdfCall' = [outcome |-> r.outcome, error |-> r.error, effects |-> r.effects,
                         merged |-> r.merged, input |-> input, config |-> config,
                         markdown |-> IF file.type = "undefined"
                                      THEN Member(input, "content") ELSE file]
  /\ UNCHANGED <<coreVars, browserVars, safeVars, cliVars>>

NextPdf == MdToPdf

SpecPdf == InitPdf /\ [][NextPdf]_vars

\* ------------------------------------------------------------------ mdToPdf claims

\* C16: a call of mdToPdf whose input has neither a path nor content is
\* rejected with 'Either path or content must be provided', and nothing was
\* read, rendered, launched or written by it.
C16_RejectsWithoutInput ==
  (/\ pdfCall.outcome # "none"
   /\ Member(pdfCall.input, "path").type = "undefined"
   /\ Member(pdfCall.input, "content").type = "undefined")
  => /\ pdfCall.outcome = "rejected"
     /\ pdfCall.error = "Either path or content must be provided"
     /\ pdfCall.effects = <<>>

\* C16 witness: mdToPdf({}, { dest: 'out.pdf' }) was rejected
C16_Witness ==
  /\ pdfCall.outcome = "rejected"
  /\ pdfCall.input = EmptyObject
  /\ Member(pdfCall.config, "dest") = Str("out.pdf")

\* the front matter with a nested margin, followed by a text line
NestedMarginText ==
  <<Delimiter, Pair(0, "pdf_options", ""), Pair(2, "format", "Letter"),
    Pair(2, "margin", ""), Pair(4, "top", "3cm"), Pair(4, "bottom", "3cm"),
    Delimiter, TextLine>>

\* { top: '3cm', bottom: '3cm' }
NestedMargin == Obj([k \in {"top", "bottom"} |-> Str("3cm")])

\* C20: for the front matter pdf_options / format: Letter / margin / top: 3cm /
\* bottom: 3cm, a call that gets as far as printing has pdf_options.format =
\* 'Letter' and pdf_options.margin = {top: '3cm', bottom: '3cm'} in its merged
\* configuration, and hands that format and that margin to page.pdf.
C20_FrontmatterMargin ==
  \A i \in 1..Len(pdfCall.effects) :
    (/\ pdfCall.effects[i].op = "pdf"
     /\ pdfCall.markdown = MdText(NestedMarginText))
    => LET pdfOptions == Member(pdfCall.merged, "pdf_options")
       IN  /\ Prop(pdfOptions, "format") = Str("Letter")
           /\ Prop(pdfOptions, "margin") = NestedMargin
           /\ Prop(pdfCall.effects[i].arg, "format") = Str("Letter")
           /\ Prop(pdfCall.effects[i].arg, "margin") = NestedMargin

\* the front matter markdown_options: / breaks: true / html: false
MarkdownOptionsText ==
  <<Delimiter, Pair(0, "markdown_options", ""), Pair(2, "breaks", "true"),
    Pair(2, "html", "false"), Delimiter, TextLine>>

\* { breaks: true, html: false }
FrontmatterMarkdownOptions ==
  Obj([k \in {"breaks", "html"} |-> Bool(k = "breaks")])

\* C21: for the front matter markdown_options: / breaks: true / html: false, a
\* call that renders has markdown_options = {breaks: true, html: false} in its
\* merged configuration and hands exactly these options to renderMarkdownSafe
\* as markdownOptions.
C21_FrontmatterMarkdownOptions ==
  \A i \in 1..Len(pdfCall.effects) :
    (/\ pdfCall.effects[i].op = "render"
     /\ pdfCall.markdown = MdText(MarkdownOptionsText))
    => /\ Member(pdfCall.merged, "markdown_options") = FrontmatterMarkdownOptions
       /\ Prop(pdfCall.effects[i].arg, "markdownOptions") = FrontmatterMarkdownOptions

\* the call got as far as rendering
HasRendered == \E i \in 1..Len(pdfCall.effects) : pdfCall.effects[i].op = "render"

\* C30: the HTML document a call assembles has no script element besides the
\* two of the template, whatever the front matter of the input sets as
\* document_title, body_class or css.
C30_FrontmatterEscaped ==
  HasRendered
  => LET doc == fullHtml(parseFrontmatter(pdfCall.markdown.v).content, pdfCall.merged)
     IN  \A i \in 1..Len(doc) :
           doc[i].tag = "script"
           => \E j \in 1..Len(TEMPLATE_SCRIPTS) : doc[i] = TEMPLATE_SCRIPTS[j]

\* ------------------------------------------------------------------ cli: parseArgs

\* the words of the command lines
ArgWords ==
  { "a.md", "b.md", "missing.md", "notes.txt", "-", "out.pdf", "--watch", "--as-html",
    "--format", "Letter", "--title" }

\* number of words of a command line
MaxArgs == 3

\* arg.startsWith('-')
startsWithDash(arg) == arg \in {"-", "--watch", "--as-html", "--format", "--title", "--help"}

\* second.endsWith('.pdf') || second.endsWith('.html') || second === '-'
looksLikeOutput(arg) == arg \in {"out.pdf", "-"}

\* args[++i]: the word after the option, undefined past the end
optionValue(args, i) == IF i + 1 <= Len(args) THEN Str(args[i + 1]) ELSE Undefined

\* the result object parseArgs starts from
NoArgs ==
  [inputs |-> <<>>, output |-> Undefined, config |-> EmptyObject, help |-> FALSE,
   watch |-> FALSE, asHtml |-> FALSE]

\* the while loop of parseArgs from the word at index i (1-based)
RECURSIVE parseLoop(_, _, _)
parseLoop(args, i, result) ==
  IF i > Len(args) THEN result
  ELSE LET arg == args[i]
           pdf == SpreadOf(Member(result.config, "pdf_options"))
       IN  IF arg = "--help" THEN parseLoop(args, i + 1, [result EXCEPT !.help = TRUE])
           ELSE IF arg = "--watch" THEN parseLoop(args, i + 1, [result EXCEPT !.watch = TRUE])
           ELSE IF arg = "--as-html"
           THEN parseLoop(args, i + 1,
                          [result EXCEPT !.asHtml = TRUE,
                                         !.config = With(result.config, "as_html", Bool(TRUE))])
           ELSE IF arg = "--format"
           THEN parseLoop(args, i + 2,
                          [result EXCEPT !.config =
                             With(result.config, "pdf_options",
                                  Obj(With(pdf, "format", optionValue(args, i))))])
           ELSE IF arg = "--title"
           THEN parseLoop(args, i + 2,
                          [result EXCEPT !.config =
                             With(result.config, "document_title", optionValue(args, i))])
           ELSE IF ~startsWithDash(arg)
           THEN parseLoop(args, i + 1, [result EXCEPT !.inputs = Append(result.inputs, arg)])
           ELSE parseLoop(args, i + 1, result)

\* parseArgs(args)
parseArgs(args) ==
  LET r == parseLoop(args, 1, NoArgs)
  IN  IF Len(r.inputs) = 2 /\ looksLikeOutput(r.inputs[2])
      THEN [r EXCEPT !.inputs = <<r.inputs[1]>>, !.output = Str(r.inputs[2])]
      ELSE r

\* ------------------------------------------------------------------ cli: files

\* the markdown files in the working directory
Disk ==
  [f \in {"a.md", "b.md", "notes.txt"} |->
     IF f = "a.md"
     THEN MdText(<<Delimiter, Pair(0, "document_title", "T"), Pair(0, "pdf_options", ""),
                   Pair(2, "format", "A3"), Delimiter, TextLine>>)
     ELSE MdText(<<TextLine>>)]

\* fs.readFile / fs.access on a path
fileAt(f) == IF f \in DOMAIN Disk THEN Disk[f] ELSE Undefined

\* the order Array.prototype.sort gives the file names
SortedNames == <<"Letter", "a.md", "b.md", "missing.md", "notes.txt", "out.pdf">>

isListed(f, files) == \E i \in 1..Len(files) : files[i] = f

\* expandGlobs(patterns): no word here is a glob pattern, so the patterns are
\* deduplicated and sorted
expandGlobs_unsorted(patterns) == patterns

expandGlobs(patterns) ==
  LET Listed(f) == isListed(f, patterns)
  IN  SelectSeq(SortedNames, Listed)

\* inputFile.replace(/\.md$/i, ext)
replaceExtension(f, ext) ==
  IF f = "a.md" THEN (IF ext = ".html" THEN "a.html" ELSE "a.pdf")
  ELSE IF f = "b.md" THEN (IF ext = ".html" THEN "b.html" ELSE "b.pdf")
  ELSE IF f = "missing.md" THEN (IF ext = ".html" THEN "missing.html" ELSE "missing.pdf")
  ELSE f

\* the configuration files main may find
FileConfigs ==
  { Undefined,
    Obj([k \in {"document_title", "pdf_options"} |->
           IF k = "document_title" THEN Str("F")
           ELSE Obj([j \in {"format", "landscape"} |->
                       IF j = "format" THEN Str("A4") ELSE Bool(TRUE)])]) }

\* ------------------------------------------------------------------ cli: main

\* extractFrontmatterConfig(filePath).as_html: the first line `as_html: true`
\* or `as_html: false` at the start of a line of the front matter
extractAsHtml(f) ==
  LET text == fileAt(f).v
      e    == IF fileAt(f).type = "undefined" THEN 0 ELSE frontmatterEnd(text)
      hits == { j \in 2..(e - 1) : /\ text[j].kind = "pair" /\ text[j].indent = 0
                                   /\ text[j].key = "as_html"
                                   /\ text[j].value \in {"true", "false"} }
  IN  IF hits = {} THEN Undefined ELSE Bool(text[Min(hits)].value = "true")

\* parsed.output ? (parsed.output === '-' ? 'stdout' : resolve(parsed.output)) : fallback
outputPathOf(output, fallback) ==
  IF ~Falsy(output) THEN (IF output = Str("-") THEN "stdout" ELSE output.v) ELSE fallback

\* convertFile(inputPath, outputPath, config, isStdin, stdinContent): the call
\* of mdToPdf it makes, with the browser behaving as `browser`
convertFile(inputPath, outputPath, config, isStdin, stdinContent, browser) ==
  LET finalConfig == With(config, "dest", Str(outputPath))
      input == IF isStdin /\ ~Falsy(stdinContent)
               THEN [k \in {"content"} |-> stdinContent]
               ELSE [k \in {"path"} |-> Str(inputPath)]
      file  == IF isStdin /\ ~Falsy(stdinContent) THEN Undefined ELSE fileAt(inputPath)
      r     == mdToPdf(input, finalConfig, file, browser)
  IN  [outcome |-> r.outcome, error |-> r.error, effects |-> r.effects,
       merged |-> r.merged, input |-> input, config |-> finalConfig,
       markdown |-> IF file.type = "undefined" THEN Member(input, "content") ELSE file]

\* what the browser does during one conversion
BrowserOutcomes == {"ok", "launch fails", "pdf fails"}

\* process.exit(code), after printing what `events` says
Exit(code, events) ==
  /\ cliPc' = "exited"
  /\ exitCode' = code
  /\ cliLog' = cliLog \o events

InitCli ==
  /\ CoreIdle
  /\ SafeIdle
  /\ BrowserIdle
  /\ pdfCall = NoPdfCall
  /\ cliPc = "start"
  /\ argv \in SeqsUpTo(ArgWords, MaxArgs)
  /\ fileConfig \in FileConfigs
  /\ parsed = NoArgs
  /\ inputFiles = <<>>
  /\ successCount = 0
  /\ errorCount = 0
  /\ cliLog = <<>>
  /\ exitCode = -1

\* main up to the point where it starts converting: arguments, configuration
\* file, the checks on the inputs and the choice of the mode
Main ==
  /\ cliPc = "start"
  /\ LET p0     == parseArgs(argv)
         config == mergeConfig(SpreadOf(fileConfig), p0.config)
         p      == [p0 EXCEPT !.config = config,
                              !.asHtml = p0.asHtml \/ ~Falsy(Member(config, "as_html"))]
         files  == expandGlobs(p.inputs)
         absent == { i \in 1..Len(files) : fileAt(files[i]).type = "undefined" }
     IN  /\ parsed' = p
         /\ IF p0.help
            THEN Exit(0, <<Effect("printHelp", Undefined)>>) /\ UNCHANGED inputFiles
            ELSE IF Len(p.inputs) = 0
            THEN /\ Exit(1, <<Effect("error", Str("Error: No input file specified"))>>)
                 /\ UNCHANGED inputFiles
            ELSE IF p.inputs = <<"-">>
            THEN IF p.watch
                 THEN /\ Exit(1, <<Effect("error",
                                Str("Error: Watch mode is not supported with stdin input"))>>)
                      /\ UNCHANGED inputFiles
                 ELSE /\ cliPc' = "stdin"
                      /\ UNCHANGED <<inputFiles, exitCode, cliLog>>
            ELSE IF absent # {}
            THEN /\ Exit(1, <<Effect("error", Str("Error: File not found"))>>)
                 /\ inputFiles' = files
            ELSE /\ inputFiles' = files
                 /\ cliPc' = IF Len(files) = 1 /\ ~p.watch THEN "single"
                             ELSE IF p.watch THEN "watch" ELSE "batch"
                 /\ cliLog' = IF Len(files) > 1 /\ ~p.watch
                              THEN Append(cliLog, Effect("log", Str("Processing files")))
                              ELSE cliLog
                 /\ UNCHANGED exitCode
  /\ UNCHANGED <<coreVars, browserVars, safeVars, pdfCall, argv, fileConfig, successCount, errorCount>>

\* the result of the one conversion of the stdin branch and of single file
\* mode: cleanup() and the exit code
ConvertedOnce(name, c) ==
  /\ pdfCall' = c
  /\ Exit(IF c.outcome = "resolved" THEN 0 ELSE 1,
          <<Effect("convertFile", Str(name))>>
            \o (IF c.outcome = "resolved" THEN <<>> ELSE <<Effect("error", Str(c.error))>>)
            \o <<Effect("cleanup", Undefined)>>)

\* the stdin branch (read standard input, convert it, clean up) and single
\* file mode (convert the file, clean up)
ConvertOne ==
  /\ cliPc \in {"stdin", "single"}
  /\ \E stdinContent \in {MdText(<<>>), MdText(<<TextLine>>)}, browser \in BrowserOutcomes :
       IF cliPc = "stdin"
       THEN IF Falsy(stdinContent)
            THEN /\ Exit(1, <<Effect("error", Str("Error: No content received from stdin"))>>)
                 /\ UNCHANGED pdfCall
            ELSE ConvertedOnce("-", convertFile("-", outputPathOf(parsed.output, "stdout"),
                                                parsed.config, TRUE, stdinContent, browser))
       ELSE LET f       == inputFiles[1]
                useHtml == \/ parsed.asHtml
                           \/ /\ Falsy(parsed.output)
                              /\ ~Falsy(extractAsHtml(f))
                ext     == IF useHtml THEN ".html" ELSE ".pdf"
                outputPath == outputPathOf(parsed.output, replaceExtension(f, ext))
            IN  ConvertedOnce(f, convertFile(f, outputPath, parsed.config, FALSE, Undefined,
                                             browser))
  /\ UNCHANGED <<coreVars, browserVars, safeVars, argv, fileConfig, parsed, inputFiles, successCount,
                 errorCount>>

\* watch mode: watchFiles converts the files and then waits for changes
Watch ==
  /\ cliPc = "watch"
  /\ cliPc' = "watching"
  /\ cliLog' = Append(cliLog, Effect("log", Str("Watching files for changes")))
  /\ UNCHANGED <<coreVars, browserVars, safeVars, pdfCall, argv, fileConfig, parsed, inputFiles,
                 successCount, errorCount, exitCode>>

\* one pass of the batch loop: the next file is converted, or fails
ConvertNext ==
  /\ cliPc = "batch"
  /\ successCount + errorCount < Len(inputFiles)
  /\ \E browser \in BrowserOutcomes :
       LET f   == inputFiles[successCount + errorCount + 1]
           ext == IF parsed.asHtml THEN ".html" ELSE ".pdf"
           c   == convertFile(f, replaceExtension(f, ext), parsed.config, FALSE, Undefined,
                              browser)
       IN  /\ pdfCall' = c
           /\ successCount' = IF c.outcome = "resolved" THEN successCount + 1 ELSE successCount
           /\ errorCount' = IF c.outcome = "resolved" THEN errorCount ELSE errorCount + 1
           /\ cliLog' = cliLog \o <<Effect("convertFile", Str(f))>>
                          \o (IF c.outcome = "resolved" THEN <<>>
                              ELSE <<Effect("error", Str(c.error))>>)
  /\ UNCHANGED <<coreVars, browserVars, safeVars, cliPc, argv, fileConfig, parsed, inputFiles, exitCode>>

\* after the batch loop: the summary line, cleanup(), and the exit code
BatchEnd ==
  /\ cliPc = "batch"
  /\ successCount + errorCount >= Len(inputFiles)
  /\ Exit(IF errorCount > 0 THEN 1 ELSE 0,
          <<Effect("summary", Undefined), Effect("cleanup", Undefined)>>)
  /\ UNCHANGED <<coreVars, browserVars, safeVars, pdfCall, argv, fileConfig, parsed, inputFiles,
                 successCount, errorCount>>

NextCli ==
  \/ Main
  \/ ConvertOne
  \/ Watch
  \/ ConvertNext
  \/ BatchEnd

SpecCli == InitCli /\ [][NextCli]_vars

\* ------------------------------------------------------------------ cli claims

\* the three sources of configuration of a conversion started by main
FileLayer == SpreadOf(fileConfig)
CliLayer == parseArgs(argv).config
FrontmatterLayer == parseFrontmatter(pdfCall.markdown.v).config

\* the value the strongest of the three sources gives for a key
Strongest(file, cli, frontmatter, k) ==
  IF k \in DOMAIN frontmatter THEN frontmatter[k]
  ELSE IF k \in DOMAIN cli THEN cli[k]
  ELSE Member(file, k)

\* the conversion got as far as merging the front matter
HasMerged == pdfCall.outcome # "none" /\ pdfCall.error \notin {"ENOENT", "Either path or content must be provided"}

\* C17: in the configuration a conversion runs with, every top-level key has
\* the value of the front matter if the front matter has the key, else the
\* value of the command line if it has the key, else the value of the
\* configuration file; and the same holds for every key of pdf_options, so a
\* key only a weaker source has is kept.
C17_ConfigPrecedence ==
  HasMerged
  => /\ \A k \in (DOMAIN FileLayer \cup DOMAIN CliLayer \cup DOMAIN FrontmatterLayer)
                   \ {"pdf_options", "dest"} :
          Member(pdfCall.merged, k) = Strongest(FileLayer, CliLayer, FrontmatterLayer, k)
     /\ LET file == SpreadOf(Member(FileLayer, "pdf_options"))
            cli  == SpreadOf(Member(CliLayer, "pdf_options"))
            fm   == SpreadOf(Member(FrontmatterLayer, "pdf_options"))
        IN  \A j \in DOMAIN file \cup DOMAIN cli \cup DOMAIN fm :
              Prop(Member(pdfCall.merged, "pdf_options"), j) = Strongest(file, cli, fm, j)

\* C17 witness: all three sources name the title, the file and the front
\* matter name the format, only the file names landscape
C17_Witness ==
  /\ HasMerged
  /\ argv = <<"--title", "Letter", "a.md">>
  /\ fileConfig # Undefined
  /\ Member(pdfCall.merged, "document_title") = Str("T")
  /\ Prop(Member(pdfCall.merged, "pdf_options"), "format") = Str("A3")
  /\ Prop(Member(pdfCall.merged, "pdf_options"), "landscape") = Bool(TRUE)

\* the files main has called convertFile for, in order
Attempts ==
  LET IsAttempt(e) == e.op = "convertFile"
      a == SelectSeq(cliLog, IsAttempt)
  IN  [i \in 1..Len(a) |-> a[i].arg.v]

\* how often main has printed or called `op`
Count(op) == Cardinality({ i \in 1..Len(cliLog) : cliLog[i].op = op })

\* the input files named on the command line, without duplicates, sorted
SortedInputs ==
  LET Named(f) == isListed(f, parseArgs(argv).inputs)
  IN  SelectSeq(SortedNames, Named)

\* what C18 says of a run that has ended
BatchOutcome ==
  /\ Attempts = SortedInputs
  /\ successCount + errorCount = Len(SortedInputs)
  /\ Count("summary") = 1
  /\ Count("cleanup") = 1
  /\ cliLog[Len(cliLog)].op = "cleanup"
  /\ exitCode = 1 <=> errorCount > 0

C19_DashReadsStdin ==
  (argv = <<"-">> /\ cliPc # "start")
  => /\ parsed.inputs = <<"-">>
     /\ \A i \in 1..Len(cliLog) : cliLog[i] # Effect("error", Str("Error: No input file specified"))

\* C29: a conversion main starts without an explicit output never writes its
\* result to the path of its input file.
C29_OutputNotInput ==
  (pdfCall.outcome # "none" /\ Falsy(parsed.output) /\ "path" \in DOMAIN pdfCall.input)
  => /\ Member(pdfCall.config, "dest") # Member(pdfCall.input, "path")
     /\ \A i \in 1..Len(pdfCall.effects) :
          pdfCall.effects[i].op = "writeFile"
          => pdfCall.effects[i].arg # Member(pdfCall.input, "path")

\* ------------------------------------------------------------------ pkg: browser management

\* number of calls of mdToPdf that may be under way at once (the change
\* handler of watchFiles and callers of the package start conversions without
\* waiting for earlier ones)
MaxProcs == 2

Procs == 1..MaxProcs

\* const optionsKey = launchOptions ? JSON.stringify(launchOptions) : 'default'
OptionsKeys == {"default", "{\"headless\":false}"}

\* a call of mdToPdf that has not started
NotStarted == [pc |-> "idle", optionsKey |-> "default", browser |-> 0, context |-> "none"]

\* browser.close(): the browser is closed, and with it every context on it
closeBrowser(b) == browsers' = [browsers EXCEPT ![b].open = FALSE]

\* the contexts of the calls once browser b is closed
contextsAfterClose(cs, b) ==
  [q \in DOMAIN cs |->
     IF cs[q].browser = b /\ cs[q].context = "open"
     THEN [cs[q] EXCEPT !.context = "closed"] ELSE cs[q]]

\* the browser a call holds is still open
isConnected(c) == c.browser # 0 /\ browsers[c.browser].open

Settled(c) == c.pc \in {"resolved", "rejected"}

InitBrowser ==
  /\ CoreIdle
  /\ SafeIdle
  /\ pdfCall = NoPdfCall
  /\ CliIdle
  /\ browserInstance = 0
  /\ currentLaunchOptions = "null"
  /\ browsers = <<>>
  /\ calls = [p \in Procs |-> NotStarted]
  /\ cleanupCall = [pc |-> "idle", afterAll |-> FALSE]

\* mdToPdf reaches `await getBrowser(launchOpts)`; getBrowser runs up to its
\* first await: browserInstance.close() when the options changed,
\* chromium.launch() when there is no browser, else it returns the browser
GetBrowser(p) ==
  /\ calls[p].pc = "idle"
  /\ \E optionsKey \in OptionsKeys :
       IF browserInstance # 0 /\ currentLaunchOptions # optionsKey
       THEN /\ closeBrowser(browserInstance)
            /\ calls' = [contextsAfterClose(calls, browserInstance) EXCEPT
                           ![p].pc = "closing", ![p].optionsKey = optionsKey]
       ELSE IF browserInstance = 0
       THEN /\ calls' = [calls EXCEPT ![p].pc = "launching", ![p].optionsKey = optionsKey]
            /\ UNCHANGED browsers
       ELSE /\ calls' = [calls EXCEPT ![p].pc = "newContext", ![p].optionsKey = optionsKey,
                                      ![p].browser = browserInstance]
            /\ UNCHANGED browsers
  /\ UNCHANGED <<coreVars, safeVars, pkgVars, browserInstance, currentLaunchOptions, cleanupCall>>

\* getBrowser after `await browserInstance.close()`: browserInstance = null,
\* then `if (!browserInstance)` holds and chromium.launch() is called
BrowserClosed(p) ==
  /\ calls[p].pc = "closing"
  /\ browserInstance' = 0
  /\ calls' = [calls EXCEPT ![p].pc = "launching"]
  /\ UNCHANGED <<coreVars, safeVars, pkgVars, currentLaunchOptions, browsers, cleanupCall>>

\* getBrowser after `await chromium.launch(...)`: the new browser is stored and
\* returned
BrowserLaunched(p) ==
  /\ calls[p].pc = "launching"
  /\ browsers' = Append(browsers, [open |-> TRUE, optionsKey |-> calls[p].optionsKey])
  /\ browserInstance' = Len(browsers) + 1
  /\ currentLaunchOptions' = calls[p].optionsKey
  /\ calls' = [calls EXCEPT ![p].pc = "newContext", ![p].browser = Len(browsers) + 1]
  /\ UNCHANGED <<coreVars, safeVars, pkgVars, cleanupCall>>

\* `await browser.newContext()` and `await context.newPage()`: rejected when
\* the browser has been closed
NewContext(p) ==
  /\ calls[p].pc = "newContext"
  /\ calls' = IF isConnected(calls[p])
              THEN [calls EXCEPT ![p].pc = "setContent", ![p].context = "open"]
              ELSE [calls EXCEPT ![p].pc = "rejected"]
  /\ UNCHANGED <<coreVars, safeVars, pkgVars, browserInstance, currentLaunchOptions, browsers,
                 cleanupCall>>

\* `await page.emulateMedia(...)`, `await page.setContent(fullHtml, ...)`: may
\* reject (a timeout), and rejects when the context is gone
SetContent(p) ==
  /\ calls[p].pc = "setContent"
  /\ \E ok \in BOOLEAN :
       calls' = IF ok /\ calls[p].context = "open"
                THEN [calls EXCEPT ![p].pc = "pdf"]
                ELSE [calls EXCEPT ![p].pc = "rejected"]
  /\ UNCHANGED <<coreVars, safeVars, pkgVars, browserInstance, currentLaunchOptions, browsers,
                 cleanupCall>>

\* `await page.pdf(...)`: may reject, and rejects when the context is gone
PagePdf(p) ==
  /\ calls[p].pc = "pdf"
  /\ \E ok \in BOOLEAN :
       calls' = IF ok /\ calls[p].context = "open"
                THEN [calls EXCEPT ![p].pc = "closeContext"]
                ELSE [calls EXCEPT ![p].pc = "rejected"]
  /\ UNCHANGED <<coreVars, safeVars, pkgVars, browserInstance, currentLaunchOptions, browsers,
                 cleanupCall>>

\* `await context.close()`, after which mdToPdf saves and returns
ContextClose(p) ==
  /\ calls[p].pc = "closeContext"
  /\ calls' = [calls EXCEPT ![p].pc = "resolved", ![p].context = "closed"]
  /\ UNCHANGED <<coreVars, safeVars, pkgVars, browserInstance, currentLaunchOptions, browsers,
                 cleanupCall>>

\* cleanup() up to its await: browserInstance.close() when there is a browser
Cleanup ==
  /\ cleanupCall.pc = "idle"
  /\ LET afterAll == \A p \in Procs : Settled(calls[p])
     IN  IF browserInstance # 0
         THEN /\ closeBrowser(browserInstance)
              /\ calls' = contextsAfterClose(calls, browserInstance)
              /\ cleanupCall' = [pc |-> "closing", afterAll |-> afterAll]
         ELSE /\ cleanupCall' = [pc |-> "done", afterAll |-> afterAll]
              /\ UNCHANGED <<browsers, calls>>
  /\ UNCHANGED <<coreVars, safeVars, pkgVars, browserInstance, currentLaunchOptions>>

\* cleanup() after `await browserInstance.close()`: browserInstance = null
CleanupDone ==
  /\ cleanupCall.pc = "closing"
  /\ browserInstance' = 0
  /\ cleanupCall' = [cleanupCall EXCEPT !.pc = "done"]
  /\ UNCHANGED <<coreVars, safeVars, pkgVars, currentLaunchOptions, browsers, calls>>

NextBrowser ==
  \/ \E p \in Procs : GetBrowser(p)
  \/ \E p \in Procs : BrowserClosed(p)
  \/ \E p \in Procs : BrowserLaunched(p)
  \/ \E p \in Procs : NewContext(p)
  \/ \E p \in Procs : SetContent(p)
  \/ \E p \in Procs : PagePdf(p)
  \/ \E p \in Procs : ContextClose(p)
  \/ Cleanup
  \/ CleanupDone

SpecBrowser == InitBrowser /\ [][NextBrowser]_vars

\* ------------------------------------------------------------------ browser claims

\* the browsers that were launched and not closed
OpenBrowsers == { b \in 1..Len(browsers) : browsers[b].open }

\* C26: at every moment the only browser launched and not closed is the one
\* browserInstance refers to, and once every call has settled and a cleanup()
\* called after that has finished, every launched browser is closed.
C26_OneSharedBrowser ==
  /\ \A b \in OpenBrowsers : b = browserInstance
  /\ (cleanupCall.pc = "done" /\ cleanupCall.afterAll) => OpenBrowsers = {}

\* C27: a browser is never closed while a call has an open context on it.
C27_NoCloseInUse ==
  [][\A b \in OpenBrowsers :
       (\E p \in Procs : calls[p].browser = b /\ calls[p].context = "open")
       => browsers'[b].open]_vars

\* C28: a call that has settled, resolved or rejected, has no open context.
C28_ContextClosedWhenSettled ==
  \A p \in Procs : Settled(calls[p]) => calls[p].context # "open"

====
